---------------------------- MODULE Spec2Model ----------------------------
(***************************************************************************)
(* Workflow control-flow graph engine of CommandFlow (src/workflow_core.py):*)
(* WorkflowGraph (nodes, forward and reverse edge indexes, validate) and    *)
(* WorkflowExecutor (run / _run_from) together with the node variants the   *)
(* executor dispatches on.                                                  *)
(***************************************************************************)
EXTENDS Integers, Sequences, FiniteSets, TLC

VARIABLES
    nodes,            \* WorkflowGraph.nodes: node id -> node model (type, config)
    edges,            \* WorkflowGraph.edges: node id -> list of OutgoingEdge
    reverse_edges,    \* WorkflowGraph.reverse_edges: node id -> list of IncomingEdge
    op,               \* the last call made on the graph, executor or runner, and the
                      \* exception a graph mutation ended with
    pc,               \* position of the caller/executor: idle, loop, done, failed
    max_steps,        \* WorkflowExecutor.max_steps
    has_stop,         \* whether run() was given a should_stop predicate
    stop_flag,        \* what should_stop() returns when polled
    loop_back_map,    \* run(): tail target id -> owning loop node id
    current,          \* _run_from: current
    executed_steps,   \* _run_from: executed_steps
    context,          \* ExecutionContext.results of the run
    err,              \* the exception that escaped run()
    polls,            \* number of should_stop() calls made by the run
    trace,            \* node ids whose execute() was called, in order
    copied,           \* the graph object copy() returned, if it was called
    runner            \* the WorkflowRunner of the editor window, its workers
                      \* and the signals queued for the UI thread

graphVars == <<nodes, edges, reverse_edges>>
runVars == <<pc, max_steps, has_stop, stop_flag, loop_back_map, current,
             executed_steps, context, err, polls, trace>>
vars == <<nodes, edges, reverse_edges, op, pc, max_steps, has_stop, stop_flag,
          loop_back_map, current, executed_steps, context, err, polls, trace,
          copied, runner>>

-----------------------------------------------------------------------------
(* Bounds of the model *)

\* largest number of edges the editor puts into a graph
MaxEdges == 3
\* largest max_steps an executor is constructed with
MaxStepsBound == 3
\* largest max_iterations a loop node is configured with
MaxIterationsBound == 5
\* largest number of visits made to the nodes of one graph
MaxVisits == 7
\* largest number a node has recorded as its result
MaxResult == 4

\* Python's None
None == "None"

-----------------------------------------------------------------------------
(* Node model *)

\* ids of the nodes a caller may add; each id is tied to one node class
NodeIds == {"L", "I", "Q", "A", "B", "F"}

\* type_name of the class registered for the node (NODE_REGISTRY)
NodeClass(id) ==
    CASE id = "L" -> "for_loop"
      [] id = "I" -> "if_condition"
      [] id = "Q" -> "condition_equals"
      [] OTHER    -> "mouse_click"

\* expressions a branch node is configured with
IfExpressions == {"True", "", "1/0"}

\* configurations a node of the class can be constructed with
NodeConfigs(id) ==
    CASE NodeClass(id) = "for_loop" ->
            {[start |-> 0, end |-> 3, step |-> 1, max_iterations |-> 3]}
      [] NodeClass(id) = "if_condition" ->
            {[expression |-> x] : x \in IfExpressions}
      [] NodeClass(id) = "condition_equals" ->
            {[left_expression |-> "5", right_expression |-> "5"]}
      [] OTHER -> {[button |-> "left"]}

\* a slip in the isinstance test: condition nodes are not recognised
IsConditionNodeBase_unrecognised(node) == FALSE

\* isinstance(node, ConditionNodeBase)
IsConditionNodeBase(node) == node.type = "condition_equals"

\* isinstance(node, IfConditionNode)
IsIfConditionNode(node) == node.type = "if_condition"

\* a slip in the isinstance test: loop nodes are not recognised
IsLoopNode_unrecognised(node) == FALSE

\* isinstance(node, (WhileLoopNode, ForLoopNode))
IsLoopNode(node) == node.type \in {"while_loop", "for_loop"}

\* len(node.output_ports())
output_ports(node) ==
    IF IsConditionNodeBase(node) \/ IsIfConditionNode(node) THEN 2
    ELSE IF IsLoopNode(node) THEN 3
    ELSE 1

\* len(node.input_ports())
input_ports(node) == IF IsIfConditionNode(node) THEN 2 ELSE 1

-----------------------------------------------------------------------------
(* WorkflowGraph *)

OutgoingEdge(target, source_port, target_port) ==
    [target |-> target, source_port |-> source_port, target_port |-> target_port]

IncomingEdge(source, target_port, source_port) ==
    [source |-> source, target_port |-> target_port, source_port |-> source_port]

\* the graph object the variables hold
Graph == [nodes |-> nodes, edges |-> edges, reverse_edges |-> reverse_edges]

\* copy() has not been called: there is no second graph object
NoCopy == [made |-> FALSE, nodes |-> << >>, edges |-> << >>,
           reverse_edges |-> << >>, shared |-> {}]

\* WorkflowGraph.__init__
EmptyGraph == [nodes |-> << >>, edges |-> << >>, reverse_edges |-> << >>]

\* a dict with one more key
DictSet(d, k, v) == [x \in (DOMAIN d) \cup {k} |-> IF x = k THEN v ELSE d[x]]

\* del d[k]
DictDel(d, k) == [x \in (DOMAIN d) \ {k} |-> d[x]]

\* the elements of a list
Range(s) == {s[i] : i \in 1..Len(s)}

\* add_node: the graph afterwards and the exception raised ("none" if none)
add_node(g, id, model) ==
    IF id \in DOMAIN g.nodes
    THEN [g |-> g, err |-> "ValueError: node already exists"]
    ELSE [g |-> [nodes |-> DictSet(g.nodes, id, model),
                 edges |-> DictSet(g.edges, id, << >>),
                 reverse_edges |-> DictSet(g.reverse_edges, id, << >>)],
          err |-> "none"]

\* a slip in add_edge: the loop over self.edges[source_id] is missing
output_conflict_unchecked(g, source_id, target_id, source_port, target_port) == "none"

\* add_edge, the loop over self.edges[source_id]: the exception it raises
output_conflict(g, source_id, target_id, source_port, target_port) ==
    LET sameOut == SelectSeq(g.edges[source_id],
                             LAMBDA e : e.source_port = source_port)
    IN  IF sameOut = << >> THEN "none"
        ELSE IF sameOut[1].target = target_id /\ sameOut[1].target_port = target_port
        THEN "ValueError: connection exists"
        ELSE "ValueError: output port occupied"

\* a slip in add_edge: the loop over self.reverse_edges[target_id] is missing
input_occupied_unchecked(g, target_id, target_port) == FALSE

\* add_edge, the loop over self.reverse_edges[target_id]: an incoming edge
\* already ends at the input port
input_occupied(g, target_id, target_port) ==
    \E i \in 1..Len(g.reverse_edges[target_id]) :
        g.reverse_edges[target_id][i].target_port = target_port

\* a slip in add_edge: the two tests that pair a condition result output with
\* a branch node's condition input are missing
add_edge_error_unpaired(g, source_id, target_id, source_port, target_port) ==
    IF source_id = target_id THEN "ValueError: self connection"
    ELSE IF source_id \notin DOMAIN g.nodes \/ target_id \notin DOMAIN g.nodes
    THEN "ValueError: both nodes must exist"
    ELSE LET conflict == output_conflict(g, source_id, target_id,
                                         source_port, target_port)
         IN  IF source_port < 0 \/ source_port >= output_ports(g.nodes[source_id])
             THEN "ValueError: output port index invalid"
             ELSE IF target_port < 0 \/ target_port >= input_ports(g.nodes[target_id])
             THEN "ValueError: input port index invalid"
             ELSE IF conflict # "none" THEN conflict
             ELSE IF input_occupied(g, target_id, target_port)
             THEN "ValueError: input port occupied"
             ELSE "none"

\* a slip in add_edge: the test source_id == target_id is missing
add_edge_error_self_allowed(g, source_id, target_id, source_port, target_port) ==
    IF source_id \notin DOMAIN g.nodes \/ target_id \notin DOMAIN g.nodes
    THEN "ValueError: both nodes must exist"
    ELSE LET source_node == g.nodes[source_id]
             target_node == g.nodes[target_id]
             conflict == output_conflict(g, source_id, target_id,
                                         source_port, target_port)
         IN  IF source_port < 0 \/ source_port >= output_ports(source_node)
             THEN "ValueError: output port index invalid"
             ELSE IF target_port < 0 \/ target_port >= input_ports(target_node)
             THEN "ValueError: input port index invalid"
             ELSE IF IsIfConditionNode(target_node) /\ target_port = 1
                     /\ (~IsConditionNodeBase(source_node) \/ source_port # 1)
             THEN "ValueError: condition input needs a condition result"
             ELSE IF IsConditionNodeBase(source_node) /\ source_port = 1
                     /\ (~IsIfConditionNode(target_node) \/ target_port # 1)
             THEN "ValueError: condition result needs a condition input"
             ELSE IF conflict # "none" THEN conflict
             ELSE IF input_occupied(g, target_id, target_port)
             THEN "ValueError: input port occupied"
             ELSE "none"

\* the exception add_edge raises before it changes anything ("none" if none)
add_edge_error(g, source_id, target_id, source_port, target_port) ==
    IF source_id = target_id THEN "ValueError: self connection"
    ELSE IF source_id \notin DOMAIN g.nodes \/ target_id \notin DOMAIN g.nodes
    THEN "ValueError: both nodes must exist"
    ELSE LET source_node == g.nodes[source_id]
             target_node == g.nodes[target_id]
             conflict == output_conflict(g, source_id, target_id,
                                         source_port, target_port)
         IN  IF source_port < 0 \/ source_port >= output_ports(source_node)
             THEN "ValueError: output port index invalid"
             ELSE IF target_port < 0 \/ target_port >= input_ports(target_node)
             THEN "ValueError: input port index invalid"
             ELSE IF IsIfConditionNode(target_node) /\ target_port = 1
                     /\ (~IsConditionNodeBase(source_node) \/ source_port # 1)
             THEN "ValueError: condition input needs a condition result"
             ELSE IF IsConditionNodeBase(source_node) /\ source_port = 1
                     /\ (~IsIfConditionNode(target_node) \/ target_port # 1)
             THEN "ValueError: condition result needs a condition input"
             ELSE IF conflict # "none" THEN conflict
             ELSE IF input_occupied(g, target_id, target_port)
             THEN "ValueError: input port occupied"
             ELSE "none"

\* a slip in add_edge: the forward index is appended to before the loop over
\* the reverse index has checked the input port
add_edge_partial(g, source_id, target_id, source_port, target_port) ==
    LET e == add_edge_error(g, source_id, target_id, source_port, target_port)
        forward == [g.edges EXCEPT ![source_id] =
                       Append(@, OutgoingEdge(target_id, source_port, target_port))]
    IN  IF e = "ValueError: input port occupied"
        THEN [g |-> [nodes |-> g.nodes, edges |-> forward,
                     reverse_edges |-> g.reverse_edges],
              err |-> e]
        ELSE IF e # "none" THEN [g |-> g, err |-> e]
        ELSE [g |-> [nodes |-> g.nodes,
                     edges |-> forward,
                     reverse_edges |-> [g.reverse_edges EXCEPT ![target_id] =
                         Append(@, IncomingEdge(source_id, target_port, source_port))]],
              err |-> "none"]

\* add_edge: the graph afterwards and the exception raised
add_edge(g, source_id, target_id, source_port, target_port) ==
    LET e == add_edge_error(g, source_id, target_id, source_port, target_port)
    IN  IF e # "none" THEN [g |-> g, err |-> e]
        ELSE [g |-> [nodes |-> g.nodes,
                     edges |-> [g.edges EXCEPT ![source_id] =
                         Append(@, OutgoingEdge(target_id, source_port, target_port))],
                     reverse_edges |-> [g.reverse_edges EXCEPT ![target_id] =
                         Append(@, IncomingEdge(source_id, target_port, source_port))]],
              err |-> "none"]

\* a slip in remove_edge: the reverse index is left as it was
filter_incoming_skipped(incoming, source_id, source_port, target_port) == incoming

\* remove_edge, the loop over self.reverse_edges[target_id]: the incoming
\* edges that stay
filter_incoming(incoming, source_id, source_port, target_port) ==
    SelectSeq(incoming,
        LAMBDA e : ~(/\ e.source = source_id
                     /\ (source_port = << >> \/ e.source_port = source_port[1])
                     /\ (target_port = << >> \/ e.target_port = target_port[1])))

\* a slip in remove_edge: the port arguments are not compared, every edge
\* from source_id to target_id is removed
remove_edge_ports_ignored(g, source_id, target_id, source_port, target_port) ==
    IF source_id \notin DOMAIN g.edges THEN g
    ELSE LET remaining == SelectSeq(g.edges[source_id],
                 LAMBDA e : e.target # target_id)
             removed == Len(remaining) # Len(g.edges[source_id])
         IN  [nodes |-> g.nodes,
              edges |-> [g.edges EXCEPT ![source_id] = remaining],
              reverse_edges |->
                 IF removed /\ target_id \in DOMAIN g.reverse_edges
                 THEN [g.reverse_edges EXCEPT ![target_id] =
                         filter_incoming(@, source_id, << >>, << >>)]
                 ELSE g.reverse_edges]

\* remove_edge; source_port and target_port are << >> for None, else <<port>>
remove_edge(g, source_id, target_id, source_port, target_port) ==
    IF source_id \notin DOMAIN g.edges THEN g
    ELSE LET matches_source(e) == source_port = << >> \/ e.source_port = source_port[1]
             matches_target(e) == target_port = << >> \/ e.target_port = target_port[1]
             remaining == SelectSeq(g.edges[source_id],
                 LAMBDA e : ~(e.target = target_id /\ matches_source(e) /\ matches_target(e)))
             removed == Len(remaining) # Len(g.edges[source_id])
         IN  [nodes |-> g.nodes,
              edges |-> [g.edges EXCEPT ![source_id] = remaining],
              reverse_edges |->
                 IF removed /\ target_id \in DOMAIN g.reverse_edges
                 THEN [g.reverse_edges EXCEPT ![target_id] =
                         filter_incoming(@, source_id, source_port, target_port)]
                 ELSE g.reverse_edges]

\* remove_node, first loop: remove_edge for every incoming edge of the snapshot
RECURSIVE RemoveIncoming(_, _, _)
RemoveIncoming(g, node_id, snapshot) ==
    IF snapshot = << >> THEN g
    ELSE RemoveIncoming(
            remove_edge(g, Head(snapshot).source, node_id,
                        <<Head(snapshot).source_port>>, <<Head(snapshot).target_port>>),
            node_id, Tail(snapshot))

\* a slip in remove_node: the loop over the outgoing edges is missing
RemoveOutgoing_skipped(g, node_id, snapshot) == g

\* remove_node, second loop: remove_edge for every outgoing edge of the snapshot
RECURSIVE RemoveOutgoing(_, _, _)
RemoveOutgoing(g, node_id, snapshot) ==
    IF snapshot = << >> THEN g
    ELSE RemoveOutgoing(
            remove_edge(g, node_id, Head(snapshot).target,
                        <<Head(snapshot).source_port>>, <<Head(snapshot).target_port>>),
            node_id, Tail(snapshot))

\* remove_node
remove_node(g, node_id) ==
    IF node_id \notin DOMAIN g.nodes THEN g
    ELSE LET g1 == RemoveIncoming(g, node_id, g.reverse_edges[node_id])
             g2 == RemoveOutgoing(g1, node_id, g1.edges[node_id])
         IN  [nodes |-> DictDel(g2.nodes, node_id),
              edges |-> DictDel(g2.edges, node_id),
              reverse_edges |-> DictDel(g2.reverse_edges, node_id)]

\* entry_nodes (as a set; the code returns it sorted)
entry_nodes(g) ==
    {n \in DOMAIN g.reverse_edges :
        \A i \in 1..Len(g.reverse_edges[n]) : g.reverse_edges[n][i].target_port # 0}

\* get_outgoing_target(node_id, port_index, target_port=0)
get_outgoing_target(g, node_id, port_index) ==
    IF node_id \notin DOMAIN g.edges THEN None
    ELSE LET hits == SelectSeq(g.edges[node_id],
                 LAMBDA e : e.source_port = port_index /\ e.target_port = 0)
         IN  IF hits = << >> THEN None ELSE hits[1].target

\* get_incoming_edge(node_id, target_port): << >> for None, else <<edge>>
get_incoming_edge(g, node_id, target_port) ==
    IF node_id \notin DOMAIN g.reverse_edges THEN << >>
    ELSE LET hits == SelectSeq(g.reverse_edges[node_id],
                 LAMBDA e : e.target_port = target_port)
         IN  IF hits = << >> THEN << >> ELSE <<hits[1]>>

\* a slip in validate: the walk is skipped and every node counts as reached
Reachable_unwalked(g, reached) == DOMAIN g.nodes

\* validate, the reachability walk: nodes reached over edges into input port 0
RECURSIVE Reachable(_, _)
Reachable(g, reached) ==
    LET more == {t \in DOMAIN g.nodes \cup NodeIds :
                    \E n \in reached : n \in DOMAIN g.edges /\
                        \E i \in 1..Len(g.edges[n]) :
                            g.edges[n][i].target = t /\ g.edges[n][i].target_port = 0}
    IN  IF more \subseteq reached THEN reached ELSE Reachable(g, reached \cup more)

\* validate, loop body for one node: the first error raised for it ("none" if
\* none), leaving out the loop_tail_sources bookkeeping
node_error(g, node_id) ==
    LET node == g.nodes[node_id]
        out == IF node_id \in DOMAIN g.edges THEN g.edges[node_id] ELSE << >>
        mapped(idx) == SelectSeq(out, LAMBDA e : e.source_port = idx)
        condition_edge == get_incoming_edge(g, node_id, 1)
        port_error(idx) ==
            IF mapped(idx) = << >> THEN "ExecutionError: output port not connected"
            ELSE IF Len(mapped(idx)) > 1 THEN "ExecutionError: output port has several targets"
            ELSE "none"
    IN  IF \E i \in 1..Len(out) : out[i].source_port >= output_ports(node)
        THEN "ExecutionError: port index out of range"
        ELSE IF IsConditionNodeBase(node)
        THEN IF port_error(0) # "none" THEN port_error(0)
             ELSE IF mapped(0)[1].target_port # 0
             THEN "ExecutionError: next output must lead to a control input"
             ELSE IF port_error(1) # "none" THEN port_error(1)
             ELSE IF mapped(1)[1].target_port = 0
             THEN "ExecutionError: condition result must lead to a condition input"
             ELSE "none"
        ELSE IF IsIfConditionNode(node)
        THEN IF condition_edge = << >>
             THEN IF node.config.expression = ""
                  THEN "ExecutionError: missing condition input or expression"
                  ELSE "none"
             ELSE IF condition_edge[1].source \notin DOMAIN g.nodes
                     \/ ~IsConditionNodeBase(g.nodes[condition_edge[1].source])
             THEN "ExecutionError: condition input must come from a condition node"
             ELSE IF condition_edge[1].source_port # 1
             THEN "ExecutionError: condition input must use the result port"
             ELSE "none"
        ELSE IF IsLoopNode(node)
        THEN IF port_error(1) # "none" THEN port_error(1)
             ELSE IF mapped(1)[1].target_port # 0
             THEN "ExecutionError: loop output must lead to a control input"
             ELSE IF port_error(2) # "none" THEN port_error(2)
             ELSE IF mapped(2)[1].target_port # 0
             THEN "ExecutionError: loop output must lead to a control input"
             ELSE IF mapped(2)[1].target = node_id
             THEN "ExecutionError: loop tail connected to the loop itself"
             ELSE "none"
        ELSE IF Len(SelectSeq(out, LAMBDA e : e.target_port = 0)) > 1
        THEN "ExecutionError: only one following node allowed"
        ELSE "none"

\* validate, loop_tail_sources: two loop nodes that pass their own checks
\* claim the same tail target
tail_shared(g) ==
    \E n \in DOMAIN g.nodes, m \in DOMAIN g.nodes :
        /\ n # m
        /\ IsLoopNode(g.nodes[n]) /\ IsLoopNode(g.nodes[m])
        /\ node_error(g, n) = "none" /\ node_error(g, m) = "none"
        /\ \E i \in 1..Len(g.edges[n]), j \in 1..Len(g.edges[m]) :
              /\ g.edges[n][i].source_port = 2 /\ g.edges[m][j].source_port = 2
              /\ g.edges[n][i].target = g.edges[m][j].target

\* a slip in validate: the check for several entry nodes is missing
validate_entries_unchecked(g) ==
    LET entries == entry_nodes(g)
        reachable == Reachable(g, entries)
    IN  IF DOMAIN g.nodes = {} THEN {"ExecutionError: workflow is empty"}
        ELSE IF entries = {} THEN {"ExecutionError: no entry node"}
        ELSE IF Cardinality(reachable) # Cardinality(DOMAIN g.nodes)
        THEN {"ExecutionError: unreachable nodes"}
        ELSE ({node_error(g, n) : n \in DOMAIN g.nodes} \ {"none"})
             \cup (IF tail_shared(g)
                   THEN {"ExecutionError: tail target used by another loop"}
                   ELSE {})

\* validate: the errors it can raise, {} when it returns normally.  The checks
\* before the per-node loop are raised in the code's order; the per-node loop
\* runs in dict insertion order, which the graph model does not keep, so the
\* error it raises is that of any failing node.
validate(g) ==
    LET entries == entry_nodes(g)
        reachable == Reachable(g, entries)
    IN  IF DOMAIN g.nodes = {} THEN {"ExecutionError: workflow is empty"}
        ELSE IF entries = {} THEN {"ExecutionError: no entry node"}
        ELSE IF Cardinality(entries) > 1 THEN {"ExecutionError: several entry nodes"}
        ELSE IF Cardinality(reachable) # Cardinality(DOMAIN g.nodes)
        THEN {"ExecutionError: unreachable nodes"}
        ELSE ({node_error(g, n) : n \in DOMAIN g.nodes} \ {"none"})
             \cup (IF tail_shared(g)
                   THEN {"ExecutionError: tail target used by another loop"}
                   ELSE {})

\* topological_order, indegree: number of incoming edges on input port 0
indegree(g, n) ==
    Len(SelectSeq(g.reverse_edges[n], LAMBDA e : e.target_port = 0))

\* topological_order, the decrements of tmp_indegree[n] made while the nodes
\* of done were taken from the queue
decrements(g, done, n) ==
    LET RECURSIVE Sum(_)
        Sum(S) == IF S = {} THEN 0
                  ELSE LET m == CHOOSE x \in S : TRUE
                       IN  Len(SelectSeq(g.edges[m],
                               LAMBDA e : e.target_port = 0 /\ e.target = n))
                           + Sum(S \ {m})
    IN  Sum(done \cap DOMAIN g.edges)

\* topological_order, the queue loop: the nodes that get into order
RECURSIVE ordered(_, _)
ordered(g, done) ==
    LET ready == {n \in DOMAIN g.reverse_edges \ done :
                     indegree(g, n) = decrements(g, done, n)}
    IN  IF ready = {} THEN done ELSE ordered(g, done \cup ready)

\* topological_order: the exception raised ("none" if none) and the nodes of
\* the order returned
topological_order(g) ==
    LET order == ordered(g, {})
    IN  IF Cardinality(order) # Cardinality(DOMAIN g.nodes)
        THEN [exc |-> "ExecutionError: Workflow contains cycles", order |-> order]
        ELSE [exc |-> "none", order |-> order]

\* _has_cycle
has_cycle(g) == topological_order(g).exc # "none"

\* build_loop_back_map: tail target -> owning loop node
build_loop_back_map(g) ==
    LET owners(t) == {n \in DOMAIN g.nodes :
            /\ IsLoopNode(g.nodes[n])
            /\ \E i \in 1..Len(g.edges[n]) :
                  /\ g.edges[n][i].source_port = 2
                  /\ g.edges[n][i].target_port = 0
                  /\ g.edges[n][i].target = t}
        targets == {t \in NodeIds : owners(t) # {}}
    IN  [t \in targets |-> CHOOSE n \in owners(t) : TRUE]

-----------------------------------------------------------------------------
(* Expressions and node variants *)

\* ExecutionContext() before any result is recorded
EmptyContext == [created |-> TRUE, results |-> << >>]

\* no ExecutionContext object exists
NoContext == [created |-> FALSE, results |-> << >>]

\* a slip in ExecutionContext: the results dictionary is a default shared by
\* every instance instead of one made by default_factory
ExecutionContext_init_shared_default(previous) ==
    [created |-> TRUE, results |-> previous.results]

\* ExecutionContext(): results is a new dictionary from default_factory,
\* whatever the instances made before it hold
ExecutionContext_init(previous) == EmptyContext

\* ExecutionContext.record
record(ctx, node_id, value) ==
    [ctx EXCEPT !.results = DictSet(ctx.results, node_id, value)]

\* evaluate_expression on the expressions the nodes are configured with:
\* the exception raised ("none" if none), the value and bool(value)
evaluate_expression(expression, ctx) ==
    CASE expression = "" ->
            [exc |-> "ExecutionError", value |-> 0, truth |-> FALSE]
      [] expression = "True" -> [exc |-> "none", value |-> 1, truth |-> TRUE]
      [] expression = "False" -> [exc |-> "none", value |-> 0, truth |-> FALSE]
      [] expression = "5" -> [exc |-> "none", value |-> 5, truth |-> TRUE]
      [] expression = "6" -> [exc |-> "none", value |-> 6, truth |-> TRUE]
      [] expression = "1/0" ->
            [exc |-> "ZeroDivisionError", value |-> 0, truth |-> FALSE]

\* a slip in MouseClickNode.execute: the result is not recorded
MouseClickNode_execute_unrecorded(node_id, node, ctx) ==
    {[exc |-> "none", context |-> ctx],
     [exc |-> "RuntimeFailure", context |-> ctx]}

\* MouseClickNode.execute: the runtime call returns or raises
MouseClickNode_execute(node_id, node, ctx) ==
    {[exc |-> "none", context |-> record(ctx, node_id, "ok")],
     [exc |-> "RuntimeFailure", context |-> ctx]}

\* IfConditionNode.execute
IfConditionNode_execute(node_id, node, ctx) ==
    {[exc |-> "none", context |-> record(ctx, node_id, << >>)]}

\* BinaryExpressionConditionNode.execute with EqualsConditionNode.compare
EqualsConditionNode_execute(node_id, node, ctx) ==
    LET left == evaluate_expression(node.config.left_expression, ctx)
        right == evaluate_expression(node.config.right_expression, ctx)
        result == left.value = right.value
    IN  IF left.exc # "none" \/ right.exc # "none"
        THEN {[exc |-> "ExecutionError", context |-> ctx]}
        ELSE {[exc |-> "none",
               context |-> record(ctx, node_id,
                   [condition |-> result, left |-> left.value,
                    right |-> right.value, value |-> result])]}

\* a slip in ForLoopNode.execute: the iteration count is not compared with
\* max_iterations
ForLoopNode_execute_unbounded(node_id, node, ctx) ==
    LET cfg == node.config
        fresh == node_id \notin DOMAIN ctx.results
                 \/ ctx.results[node_id].completed
        cur == IF fresh THEN cfg.start ELSE ctx.results[node_id].next_value
        iteration == IF fresh THEN 0 ELSE ctx.results[node_id].iteration
        should_continue == IF cfg.step > 0 THEN cur < cfg.end ELSE cur > cfg.end
    IN  {[exc |-> "none",
          context |-> record(ctx, node_id,
              [value |-> cur,
               iteration |-> IF should_continue THEN iteration + 1 ELSE iteration,
               next_value |-> IF should_continue THEN cur + cfg.step ELSE cur,
               should_continue |-> should_continue,
               completed |-> ~should_continue])]}

\* a slip in ForLoopNode.execute: a completed loop is not restarted
ForLoopNode_execute_resumed(node_id, node, ctx) ==
    LET cfg == node.config
        fresh == node_id \notin DOMAIN ctx.results
        cur == IF fresh THEN cfg.start ELSE ctx.results[node_id].next_value
        iteration == IF fresh THEN 0 ELSE ctx.results[node_id].iteration
        should_continue == IF cfg.step > 0 THEN cur < cfg.end ELSE cur > cfg.end
    IN  IF should_continue
        THEN IF iteration + 1 > cfg.max_iterations
             THEN {[exc |-> "ExecutionError", context |-> ctx]}
             ELSE {[exc |-> "none",
                    context |-> record(ctx, node_id,
                        [value |-> cur, iteration |-> iteration + 1,
                         next_value |-> cur + cfg.step,
                         should_continue |-> TRUE, completed |-> FALSE])]}
        ELSE {[exc |-> "none",
               context |-> record(ctx, node_id,
                   [value |-> cur, iteration |-> iteration,
                    next_value |-> cur,
                    should_continue |-> FALSE, completed |-> TRUE])]}

\* ForLoopNode.execute
ForLoopNode_execute(node_id, node, ctx) ==
    LET cfg == node.config
        fresh == node_id \notin DOMAIN ctx.results
                 \/ ctx.results[node_id].completed
        cur == IF fresh THEN cfg.start ELSE ctx.results[node_id].next_value
        iteration == IF fresh THEN 0 ELSE ctx.results[node_id].iteration
        should_continue == IF cfg.step > 0 THEN cur < cfg.end ELSE cur > cfg.end
    IN  IF should_continue
        THEN IF iteration + 1 > cfg.max_iterations
             THEN {[exc |-> "ExecutionError", context |-> ctx]}
             ELSE {[exc |-> "none",
                    context |-> record(ctx, node_id,
                        [value |-> cur, iteration |-> iteration + 1,
                         next_value |-> cur + cfg.step,
                         should_continue |-> TRUE, completed |-> FALSE])]}
        ELSE {[exc |-> "none",
               context |-> record(ctx, node_id,
                   [value |-> cur, iteration |-> iteration,
                    next_value |-> cur,
                    should_continue |-> FALSE, completed |-> TRUE])]}

\* the guards of the form iteration < N
IterationGuards == {"iteration < 1", "iteration < 2", "iteration < 3"}

\* the N of the guard iteration < N
GuardBound(expression) ==
    CASE expression = "iteration < 1" -> 1
      [] expression = "iteration < 2" -> 2
      [] expression = "iteration < 3" -> 3

\* a guard reading the result of node Q: value('Q') is context.get('Q'), None
\* until Q has recorded its result and a non-empty dict afterwards
ResultGuard == "value('Q')"

\* evaluate_condition with extra_values = {"iteration": ...}: the exception
\* raised ("none" if none) and bool(result)
evaluate_condition(expression, ctx, extra_values) ==
    IF expression \in IterationGuards
    THEN [exc |-> "none", truth |-> extra_values.iteration < GuardBound(expression)]
    ELSE IF expression = ResultGuard
    THEN [exc |-> "none", truth |-> "Q" \in DOMAIN ctx.results]
    ELSE LET r == evaluate_expression(expression, ctx)
         IN  [exc |-> r.exc, truth |-> r.truth]

\* a slip in WhileLoopNode.execute: the bound is compared with >= 
WhileLoopNode_execute_off_by_one(node_id, node, ctx) ==
    LET iteration == IF node_id \in DOMAIN ctx.results
                     THEN ctx.results[node_id].iteration ELSE 0
        c == evaluate_condition(node.config.expression, ctx,
                                [iteration |-> iteration])
    IN  IF c.exc # "none" THEN {[exc |-> c.exc, context |-> ctx]}
        ELSE IF c.truth /\ iteration + 1 >= node.config.max_iterations
        THEN {[exc |-> "ExecutionError", context |-> ctx]}
        ELSE {[exc |-> "none",
               context |-> record(ctx, node_id,
                   [condition |-> c.truth,
                    iteration |-> IF c.truth THEN iteration + 1 ELSE iteration])]}

\* a slip in WhileLoopNode.execute: the count restarts after an execution on
\* which the guard was false
WhileLoopNode_execute_reset(node_id, node, ctx) ==
    LET iteration == IF node_id \in DOMAIN ctx.results /\ ctx.results[node_id].condition
                     THEN ctx.results[node_id].iteration ELSE 0
        c == evaluate_condition(node.config.expression, ctx,
                                [iteration |-> iteration])
    IN  IF c.exc # "none" THEN {[exc |-> c.exc, context |-> ctx]}
        ELSE IF c.truth /\ iteration + 1 > node.config.max_iterations
        THEN {[exc |-> "ExecutionError", context |-> ctx]}
        ELSE {[exc |-> "none",
               context |-> record(ctx, node_id,
                   [condition |-> c.truth,
                    iteration |-> IF c.truth THEN iteration + 1 ELSE iteration])]}

\* WhileLoopNode.execute
WhileLoopNode_execute(node_id, node, ctx) ==
    LET iteration == IF node_id \in DOMAIN ctx.results
                     THEN ctx.results[node_id].iteration ELSE 0
        c == evaluate_condition(node.config.expression, ctx,
                                [iteration |-> iteration])
    IN  IF c.exc # "none" THEN {[exc |-> c.exc, context |-> ctx]}
        ELSE IF c.truth /\ iteration + 1 > node.config.max_iterations
        THEN {[exc |-> "ExecutionError", context |-> ctx]}
        ELSE {[exc |-> "none",
               context |-> record(ctx, node_id,
                   [condition |-> c.truth,
                    iteration |-> IF c.truth THEN iteration + 1 ELSE iteration])]}

\* str.strip on the strings a path or command field is given
strip(text) == IF text = " " THEN "" ELSE text

\* CommandNode.validate_config: the exception raised ("none" if none) and the
\* configuration it leaves in the node ("raise" and "ignore" stand for the
\* two on_error choices)
CommandNode_validate_config(cfg) ==
    IF cfg.timeout <= 0
    THEN [exc |-> "ValueError", config |-> cfg]
    ELSE IF cfg.on_error \notin {"raise", "ignore"}
    THEN [exc |-> "ValueError", config |-> cfg]
    ELSE [exc |-> "none",
          config |-> [cfg EXCEPT !.command = strip(cfg.command)]]

\* FileDeleteNode.validate_config ("ignore" and "raise" stand for the two
\* choices of missing)
FileDeleteNode_validate_config(cfg) ==
    IF cfg.missing \notin {"ignore", "raise"}
    THEN [exc |-> "ValueError", config |-> cfg]
    ELSE [exc |-> "none",
          config |-> [cfg EXCEPT !.target_path = strip(cfg.target_path)]]

\* WhileLoopNode.validate_config
WhileLoopNode_validate_config(cfg) ==
    IF strip(cfg.expression) = ""
    THEN [exc |-> "ValueError", config |-> cfg]
    ELSE IF cfg.max_iterations <= 0
    THEN [exc |-> "ValueError", config |-> cfg]
    ELSE [exc |-> "none",
          config |-> [cfg EXCEPT !.expression = strip(cfg.expression)]]

\* IfConditionNode.validate_config
IfConditionNode_validate_config(cfg) ==
    [exc |-> "none", config |-> [cfg EXCEPT !.expression = strip(cfg.expression)]]

\* node.validate_config() of the class registered as type_name: the exception
\* raised ("none" if none) and the configuration it leaves in the node
validate_config(type_name, config) ==
    CASE type_name = "command" -> CommandNode_validate_config(config)
      [] type_name = "file_delete" -> FileDeleteNode_validate_config(config)
      [] type_name = "while_loop" -> WhileLoopNode_validate_config(config)
      [] type_name = "if_condition" -> IfConditionNode_validate_config(config)
      [] OTHER -> [exc |-> "none", config |-> config]

\* WorkflowNodeModel.__init__ of the class registered as type_name, given a
\* full configuration: validate_config decides whether the node exists
WorkflowNodeModel_init(type_name, config) ==
    LET v == validate_config(type_name, config)
    IN  [exc |-> v.exc, model |-> [type |-> type_name, config |-> v.config]]

\* CommandNode.execute: runtime.run_command raises, or returns with a zero
\* or a non-zero return code
CommandNode_execute(node_id, node, ctx) ==
    IF node.config.command = ""
    THEN {[exc |-> "ExecutionError", msg |-> "command not set", context |-> ctx]}
    ELSE {[exc |-> "ExecutionError", msg |-> "command raised", context |-> ctx]}
         \cup {IF returncode # 0 /\ node.config.on_error = "raise"
               THEN [exc |-> "ExecutionError", msg |-> "command failed",
                     context |-> ctx]
               ELSE [exc |-> "none", msg |-> "",
                     context |-> record(ctx, node_id, [returncode |-> returncode])]
               : returncode \in {0, 1}}

\* FileDeleteNode.execute: the target exists or not, and deleting it works
\* or raises OSError
FileDeleteNode_execute(node_id, node, ctx) ==
    IF node.config.target_path = ""
    THEN {[exc |-> "ExecutionError", msg |-> "target path not set", context |-> ctx]}
    ELSE {IF node.config.missing = "raise"
          THEN [exc |-> "ExecutionError", msg |-> "target missing", context |-> ctx]
          ELSE [exc |-> "none", msg |-> "",
                context |-> record(ctx, node_id, "not-found")],
          [exc |-> "ExecutionError", msg |-> "delete failed", context |-> ctx],
          [exc |-> "none", msg |-> "", context |-> record(ctx, node_id, "deleted")]}

\* node.execute(context, runtime): the possible outcomes
execute(node_id, node, ctx) ==
    CASE node.type = "for_loop" -> ForLoopNode_execute(node_id, node, ctx)
      [] node.type = "while_loop" -> WhileLoopNode_execute(node_id, node, ctx)
      [] node.type = "if_condition" -> IfConditionNode_execute(node_id, node, ctx)
      [] node.type = "condition_equals" -> EqualsConditionNode_execute(node_id, node, ctx)
      [] node.type = "command" -> CommandNode_execute(node_id, node, ctx)
      [] node.type = "file_delete" -> FileDeleteNode_execute(node_id, node, ctx)
      [] OTHER -> MouseClickNode_execute(node_id, node, ctx)

\* a slip in IfConditionNode._evaluate_condition: the node's own expression
\* is evaluated even when the condition input is wired
IfConditionNode_evaluate_condition_own_only(g, node_id, node, ctx) ==
    LET own == evaluate_expression(node.config.expression, ctx)
    IN  [exc |-> own.exc, result |-> own.truth, raw_value |-> own.value,
         source |-> None]

\* IfConditionNode._evaluate_condition: exception, result and source
IfConditionNode_evaluate_condition(g, node_id, node, ctx) ==
    LET incoming == get_incoming_edge(g, node_id, 1)
        own == evaluate_expression(node.config.expression, ctx)
    IN  IF incoming # << >>
        THEN IF incoming[1].source \notin DOMAIN ctx.results
             THEN [exc |-> "ExecutionError", result |-> FALSE, raw_value |-> None,
                   source |-> None]
             ELSE [exc |-> "none",
                   result |-> ctx.results[incoming[1].source].condition,
                   raw_value |-> ctx.results[incoming[1].source].value,
                   source |-> incoming[1].source]
        ELSE [exc |-> own.exc, result |-> own.truth, raw_value |-> own.value,
              source |-> None]

\* IfConditionNode.determine_next
IfConditionNode_determine_next(g, node_id, node, ctx) ==
    LET c == IfConditionNode_evaluate_condition(g, node_id, node, ctx)
    IN  IF c.exc # "none"
        THEN [exc |-> c.exc, next |-> None, context |-> ctx]
        ELSE [exc |-> "none",
              next |-> IF c.result THEN get_outgoing_target(g, node_id, 0)
                       ELSE get_outgoing_target(g, node_id, 1),
              context |-> record(ctx, node_id,
                  [condition |-> c.result, value |-> c.raw_value,
                   source |-> c.source])]

\* a slip in ForLoopNode.determine_next: the finished output is never taken
ForLoopNode_determine_next_entry_only(g, node_id, node, ctx) ==
    [exc |-> "none", next |-> get_outgoing_target(g, node_id, 1), context |-> ctx]

\* a slip in ForLoopNode.determine_next: a continuing loop follows the tail
\* output
ForLoopNode_determine_next_tail(g, node_id, node, ctx) ==
    LET should_continue == node_id \in DOMAIN ctx.results
                           /\ ctx.results[node_id].should_continue
    IN  [exc |-> "none",
         next |-> IF should_continue THEN get_outgoing_target(g, node_id, 2)
                  ELSE get_outgoing_target(g, node_id, 0),
         context |-> ctx]

\* ForLoopNode.determine_next
ForLoopNode_determine_next(g, node_id, node, ctx) ==
    LET should_continue == node_id \in DOMAIN ctx.results
                           /\ ctx.results[node_id].should_continue
    IN  [exc |-> "none",
         next |-> IF should_continue THEN get_outgoing_target(g, node_id, 1)
                  ELSE get_outgoing_target(g, node_id, 0),
         context |-> ctx]

\* a slip in WhileLoopNode.determine_next: a true guard leads to the tail output
WhileLoopNode_determine_next_tail(g, node_id, node, ctx) ==
    LET condition == node_id \in DOMAIN ctx.results
                     /\ ctx.results[node_id].condition
    IN  [exc |-> "none",
         next |-> IF condition THEN get_outgoing_target(g, node_id, 2)
                  ELSE get_outgoing_target(g, node_id, 0),
         context |-> ctx]

\* WhileLoopNode.determine_next
WhileLoopNode_determine_next(g, node_id, node, ctx) ==
    LET condition == node_id \in DOMAIN ctx.results
                     /\ ctx.results[node_id].condition
    IN  [exc |-> "none",
         next |-> IF condition THEN get_outgoing_target(g, node_id, 1)
                  ELSE get_outgoing_target(g, node_id, 0),
         context |-> ctx]

\* WorkflowNodeModel.determine_next
WorkflowNodeModel_determine_next(g, node_id, node, ctx) ==
    [exc |-> "none", next |-> get_outgoing_target(g, node_id, 0), context |-> ctx]

\* node.determine_next(graph, context)
determine_next(g, node_id, node, ctx) ==
    CASE node.type = "for_loop" -> ForLoopNode_determine_next(g, node_id, node, ctx)
      [] node.type = "while_loop" -> WhileLoopNode_determine_next(g, node_id, node, ctx)
      [] node.type = "if_condition" -> IfConditionNode_determine_next(g, node_id, node, ctx)
      [] OTHER -> WorkflowNodeModel_determine_next(g, node_id, node, ctx)

-----------------------------------------------------------------------------
(* Calls the editor makes on the graph *)

\* add_edge calls the editor makes: (source, source_port, target, target_port)
EdgeRequests ==
    {<<"L", 0, "F", 0>>, <<"L", 1, "A", 0>>, <<"L", 2, "B", 0>>,
     <<"I", 0, "A", 0>>, <<"I", 1, "B", 0>>, <<"I", 0, "Q", 0>>,
     <<"Q", 0, "I", 0>>, <<"Q", 1, "I", 1>>, <<"Q", 0, "A", 0>>,
     <<"A", 0, "B", 0>>, <<"B", 0, "F", 0>>, <<"A", 0, "L", 0>>,
     <<"A", 0, "A", 0>>, <<"L", 2, "L", 0>>, <<"A", 1, "B", 0>>,
     <<"A", 0, "B", 1>>, <<"A", 0, "I", 1>>, <<"Q", 1, "B", 0>>,
     <<"B", -1, "F", 0>>, <<"L", 3, "A", 0>>, <<"B", 0, "L", 0>>}

\* remove_edge calls the editor makes: (source, target, source_port,
\* target_port), a port being << >> when the argument is left out
RemoveRequests ==
    {<<"L", "A", <<1>>, <<0>>>>, <<"L", "B", <<2>>, <<0>>>>, <<"L", "F", << >>, << >>>>,
     <<"I", "A", <<0>>, << >>>>, <<"I", "B", << >>, <<0>>>>, <<"Q", "I", << >>, << >>>>,
     <<"Q", "I", <<1>>, <<1>>>>, <<"Q", "I", <<0>>, << >>>>, <<"Q", "I", << >>, <<0>>>>,
     <<"Q", "A", << >>, << >>>>, <<"I", "Q", <<0>>, <<0>>>>, <<"A", "B", << >>, << >>>>,
     <<"B", "F", <<0>>, <<0>>>>, <<"A", "L", << >>, << >>>>, <<"A", "B", <<1>>, << >>>>,
     <<"B", "A", << >>, << >>>>}

\* number of edges in the forward index
EdgeCount(g) ==
    LET RECURSIVE Sum(_)
        Sum(S) == IF S = {} THEN 0
                  ELSE LET n == CHOOSE x \in S : TRUE
                       IN  Len(g.edges[n]) + Sum(S \ {n})
    IN  Sum(DOMAIN g.edges)

\* no exception has escaped run()
NoFailure == [kind |-> "none", node |-> None, msg |-> "", phase |-> ""]

\* the exception that escapes run(): its class, the node it names, its
\* message and the place in run() that raised it
Failure(kind, node, msg, phase) ==
    [kind |-> kind, node |-> node, msg |-> msg, phase |-> phase]

\* no finished signal
NoSignal == [worker |-> 0, success |-> FALSE, message |-> "none"]

\* WorkflowRunner.__init__ and WorkflowInterface.__init__: no run in progress,
\* no stop event, no worker; events holds the set flag of every Event object
\* still referred to, workers the worker objects made so far, queue the
\* finished signals of workers not yet delivered to the UI thread, emitted
\* the finished signal the runner has emitted for the run started last
WorkflowRunner_init ==
    [running |-> FALSE, stop_event |-> 0, events |-> << >>, workers |-> << >>,
     queue |-> << >>, is_running |-> FALSE, emitted |-> NoSignal]

\* values of the run variables while no run is in progress
RunIdle ==
    /\ pc = "idle"
    /\ max_steps = 0
    /\ has_stop = FALSE
    /\ stop_flag = FALSE
    /\ loop_back_map = << >>
    /\ current = None
    /\ executed_steps = 0
    /\ context = NoContext
    /\ err = NoFailure
    /\ polls = 0
    /\ trace = << >>

Init ==
    /\ nodes = EmptyGraph.nodes
    /\ edges = EmptyGraph.edges
    /\ reverse_edges = EmptyGraph.reverse_edges
    /\ op = [name |-> "init", err |-> "none"]
    /\ RunIdle
    /\ copied = NoCopy
    /\ runner = WorkflowRunner_init

\* the graph variables take the value of graph object g
SetGraph(g) ==
    /\ nodes' = g.nodes
    /\ edges' = g.edges
    /\ reverse_edges' = g.reverse_edges

\* graph.add_node(node_cls(id, config))
AddNode(id, config) ==
    /\ pc = "idle"
    /\ LET r == add_node(Graph, id, [type |-> NodeClass(id), config |-> config])
       IN  /\ SetGraph(r.g)
           /\ op' = [name |-> "add_node", err |-> r.err]
    /\ UNCHANGED runVars
    /\ UNCHANGED copied
    /\ UNCHANGED runner

\* graph.remove_node(id)
RemoveNode(id) ==
    /\ pc = "idle"
    /\ SetGraph(remove_node(Graph, id))
    /\ op' = [name |-> "remove_node", err |-> "none"]
    /\ UNCHANGED runVars
    /\ UNCHANGED copied
    /\ UNCHANGED runner

\* graph.add_edge(source, target, source_port=, target_port=)
AddEdge(source_id, source_port, target_id, target_port) ==
    /\ pc = "idle"
    /\ LET r == add_edge(Graph, source_id, target_id, source_port, target_port)
       IN  /\ EdgeCount(r.g) <= MaxEdges
           /\ SetGraph(r.g)
           /\ op' = [name |-> "add_edge", err |-> r.err]
    /\ UNCHANGED runVars
    /\ UNCHANGED copied
    /\ UNCHANGED runner

\* graph.remove_edge(source, target, source_port=, target_port=)
RemoveEdge(source_id, target_id, source_port, target_port) ==
    /\ pc = "idle"
    /\ SetGraph(remove_edge(Graph, source_id, target_id, source_port, target_port))
    /\ op' = [name |-> "remove_edge", err |-> "none"]
    /\ UNCHANGED runVars
    /\ UNCHANGED copied
    /\ UNCHANGED runner

\* graph.topological_order()
TopologicalOrder ==
    /\ pc = "idle"
    /\ op' = [name |-> "topological_order", err |-> topological_order(Graph).exc]
    /\ UNCHANGED <<nodes, edges, reverse_edges>>
    /\ UNCHANGED runVars
    /\ UNCHANGED copied
    /\ UNCHANGED runner

-----------------------------------------------------------------------------
(* WorkflowExecutor *)

\* a slip in _run_from: the result of should_stop() is ignored
cancelled_ignored(with_stop, stop) == FALSE

\* _run_from: should_stop is not None and should_stop()
cancelled(with_stop, stop) == with_stop /\ stop

\* a slip in _run_from: the comparison is off by one
step_limit_off_by_one(steps, limit) == steps > limit + 1

\* a slip in _run_from: the step counter is never compared with the limit
step_limit_unchecked(steps, limit) == FALSE

\* _run_from: executed_steps > self.max_steps
step_limit_exceeded(steps, limit) == steps > limit

\* a slip in _run_from: the loop-tail map is not consulted
next_target_own(node_next, cur, back_map) == node_next

\* _run_from: the loop-tail override of the node's own next target
next_target(node_next, cur, back_map) ==
    IF cur \in DOMAIN back_map THEN back_map[cur] ELSE node_next

\* a slip in run(): the failure of validate() is swallowed and an empty
\* context is returned
RunStart_validation_swallowed(steps, with_stop, stop) ==
    /\ pc = "idle"
    /\ steps > 0
    /\ max_steps' = steps
    /\ has_stop' = with_stop
    /\ stop_flag' = (with_stop /\ stop)
    /\ polls' = 0
    /\ trace' = << >>
    /\ executed_steps' = 0
    /\ err' = NoFailure
    /\ context' = EmptyContext
    /\ IF validate(Graph) # {}
       THEN /\ pc' = "done"
            /\ loop_back_map' = << >>
            /\ current' = None
       ELSE /\ pc' = "loop"
            /\ loop_back_map' = build_loop_back_map(Graph)
            /\ current' = CHOOSE n \in entry_nodes(Graph) : TRUE
    /\ op' = [name |-> "run", err |-> "none"]
    /\ UNCHANGED <<nodes, edges, reverse_edges>>
    /\ UNCHANGED copied
    /\ UNCHANGED runner

\* WorkflowExecutor(runtime, max_steps=steps).run(graph, should_stop=...) up to
\* the first iteration of _run_from: validate, build the loop-tail map, create
\* the context.  stop is the value should_stop() has when the run starts.
RunStart(steps, with_stop, stop) ==
    /\ pc = "idle"
    /\ steps > 0
    /\ max_steps' = steps
    /\ has_stop' = with_stop
    /\ stop_flag' = (with_stop /\ stop)
    /\ polls' = 0
    /\ trace' = << >>
    /\ executed_steps' = 0
    /\ IF validate(Graph) # {}
       THEN /\ \E e \in validate(Graph) :
                  err' = Failure("ExecutionError", None, e, "validate")
            /\ pc' = "failed"
            /\ context' = NoContext
            /\ loop_back_map' = << >>
            /\ current' = None
       ELSE /\ err' = NoFailure
            /\ pc' = "loop"
            /\ context' = ExecutionContext_init(context)
            /\ loop_back_map' = build_loop_back_map(Graph)
            /\ current' = CHOOSE n \in entry_nodes(Graph) : TRUE
    /\ op' = [name |-> "run", err |-> "none"]
    /\ UNCHANGED <<nodes, edges, reverse_edges>>
    /\ UNCHANGED copied
    /\ UNCHANGED runner

\* the run ends with an exception
Fail(failure) ==
    /\ pc' = "failed"
    /\ err' = failure
    /\ current' = None

\* one iteration of the while loop of _run_from
Step ==
    /\ pc = "loop"
    /\ polls' = IF has_stop THEN polls + 1 ELSE polls
    /\ IF cancelled(has_stop, stop_flag)
       THEN /\ Fail(Failure("ExecutionError", None, "Execution cancelled", "poll"))
            /\ UNCHANGED <<executed_steps, context, trace>>
       ELSE IF current \notin DOMAIN nodes
       THEN /\ Fail(Failure("ExecutionError", current, "node does not exist", "lookup"))
            /\ UNCHANGED <<executed_steps, context, trace>>
       ELSE /\ executed_steps' = executed_steps + 1
            /\ IF step_limit_exceeded(executed_steps + 1, max_steps)
               THEN /\ Fail(Failure("ExecutionError", None, "step limit exceeded", "limit"))
                    /\ UNCHANGED <<context, trace>>
               ELSE /\ trace' = Append(trace, current)
                    /\ \E x \in execute(current, nodes[current], context) :
                         IF x.exc # "none"
                         THEN /\ Fail(Failure("ExecutionError", current,
                                              "Node failed", "execute"))
                              /\ context' = x.context
                         ELSE LET d == determine_next(Graph, current, nodes[current],
                                                      x.context)
                                  next_id == next_target(d.next, current, loop_back_map)
                              IN  IF d.exc # "none"
                                  THEN /\ Fail(Failure(d.exc, None,
                                                "determine_next failed", "determine_next"))
                                       /\ context' = d.context
                                  ELSE /\ context' = d.context
                                       /\ current' = next_id
                                       /\ pc' = IF next_id = None THEN "done" ELSE "loop"
                                       /\ err' = NoFailure
    /\ UNCHANGED <<nodes, edges, reverse_edges, op, max_steps, has_stop, stop_flag,
                   loop_back_map>>
    /\ UNCHANGED copied
    /\ UNCHANGED runner

\* the caller's stop event is set while the run is in progress
Stop ==
    /\ pc = "loop"
    /\ has_stop
    /\ ~stop_flag
    /\ stop_flag' = TRUE
    /\ UNCHANGED <<nodes, edges, reverse_edges, op, pc, max_steps, has_stop,
                   loop_back_map, current, executed_steps, context, err, polls, trace>>
    /\ UNCHANGED copied
    /\ UNCHANGED runner

\* run() has returned its context or raised; the caller goes on
Return ==
    /\ pc \in {"done", "failed"}
    /\ pc' = "idle"
    /\ max_steps' = 0
    /\ has_stop' = FALSE
    /\ stop_flag' = FALSE
    /\ loop_back_map' = << >>
    /\ current' = None
    /\ executed_steps' = 0
    /\ context' = NoContext
    /\ err' = NoFailure
    /\ polls' = 0
    /\ trace' = << >>
    /\ UNCHANGED <<nodes, edges, reverse_edges, op>>
    /\ UNCHANGED copied
    /\ UNCHANGED runner

Next ==
    \/ \E id \in NodeIds : \E config \in NodeConfigs(id) : AddNode(id, config)
    \/ \E id \in NodeIds : RemoveNode(id)
    \/ \E r \in EdgeRequests : AddEdge(r[1], r[2], r[3], r[4])
    \/ \E r \in RemoveRequests : RemoveEdge(r[1], r[2], r[3], r[4])
    \/ TopologicalOrder
    \/ \E steps \in 1..MaxStepsBound : \E with_stop \in BOOLEAN : \E stop \in BOOLEAN :
          RunStart(steps, with_stop, stop)
    \/ Step
    \/ Stop
    \/ Return

Spec == Init /\ [][Next]_vars

\* _run_from is not suspended for ever: each iteration of its loop returns as
\* long as the node effect and should_stop return
FairSpec == Spec /\ WF_vars(Step)

-----------------------------------------------------------------------------
(* Node variants visited one at a time: execute() followed by                *)
(* determine_next(), as _run_from calls them, on graphs built with add_node  *)
(* and add_edge                                                              *)

\* configurations of a For node
ForConfigs ==
    [start : {0, 1}, end : -2..3, step : {-2, -1, 1, 2},
     max_iterations : 1..MaxIterationsBound]

\* configurations of a While node
WhileConfigs ==
    [expression : {"True", "False"} \cup IterationGuards,
     max_iterations : 1..MaxIterationsBound]

\* configurations of an equals-condition node
EqualsConfigs ==
    [left_expression : {"5"}, right_expression : {"5", "6"}]

\* configurations of a branch node
IfConfigs == [expression : {"True", "False", "", "1/0"}]

\* the graph after add_node for each (id, model) of the list
RECURSIVE add_nodes(_, _)
add_nodes(g, models) ==
    IF models = << >> THEN g
    ELSE add_nodes(add_node(g, models[1][1], models[1][2]).g, Tail(models))

\* the graph after add_edge for each (source, source_port, target,
\* target_port) of the list
RECURSIVE add_edges(_, _)
add_edges(g, requests) ==
    IF requests = << >> THEN g
    ELSE add_edges(add_edge(g, requests[1][1], requests[1][3],
                            requests[1][2], requests[1][4]).g,
                   Tail(requests))

\* an action node
ClickModel == [type |-> "mouse_click", config |-> [button |-> "left"]]

\* a loop node with its three outputs wired: finished -> F, loop entry -> A,
\* loop tail -> B
LoopGraph(id, model) ==
    add_edges(add_nodes(EmptyGraph, <<<<id, model>>, <<"A", ClickModel>>,
                                      <<"B", ClickModel>>, <<"F", ClickModel>>>>),
              <<<<id, 0, "F", 0>>, <<id, 1, "A", 0>>, <<id, 2, "B", 0>>>>)

\* a branch node I with its outputs wired to A (condition holds) and B
\* (condition fails), after a condition node Q whose result output is wired
\* into the branch node's condition input when wired is true
BranchGraph(equals_config, if_config, wired) ==
    add_edges(add_nodes(EmptyGraph,
                  <<<<"Q", [type |-> "condition_equals", config |-> equals_config]>>,
                    <<"I", [type |-> "if_condition", config |-> if_config]>>,
                    <<"A", ClickModel>>, <<"B", ClickModel>>>>),
              <<<<"Q", 0, "I", 0>>, <<"I", 0, "A", 0>>, <<"I", 1, "B", 0>>>>
              \o (IF wired THEN <<<<"Q", 1, "I", 1>>>> ELSE << >>))

\* a condition node Q followed by the While node W, whose guard reads the
\* result of Q and whose outputs are wired as in LoopGraph
GuardedLoopGraph(max_iterations) ==
    add_edges(add_nodes(LoopGraph("W", [type |-> "while_loop",
                                        config |-> [expression |-> ResultGuard,
                                                    max_iterations |-> max_iterations]]),
                        <<<<"Q", [type |-> "condition_equals",
                                  config |-> [left_expression |-> "5",
                                              right_expression |-> "5"]]>>>>),
              <<<<"Q", 0, "W", 0>>>>)

\* configurations a command node is constructed from
CommandConfigs ==
    [command : {"", " ", "dir"}, timeout : {0, 60}, on_error : {"raise", "ignore"}]

\* configurations a file-delete node is constructed from
FileDeleteConfigs ==
    [target_path : {"", " ", "f"}, missing : {"ignore", "raise"}]

\* the node models whose construction succeeded
Constructed(type_name, configs) ==
    {WorkflowNodeModel_init(type_name, c).model :
        c \in {k \in configs : WorkflowNodeModel_init(type_name, k).exc = "none"}}

\* an action node followed by A
ActionGraph(id, model) ==
    add_edges(add_nodes(EmptyGraph, <<<<id, model>>, <<"A", ClickModel>>>>),
              <<<<id, 0, "A", 0>>>>)

\* the graphs whose nodes are visited
NodeGraphs ==
    {LoopGraph("L", [type |-> "for_loop", config |-> c]) : c \in ForConfigs}
    \cup {LoopGraph("W", [type |-> "while_loop", config |-> c]) : c \in WhileConfigs}
    \cup {BranchGraph(q, i, w) : q \in EqualsConfigs, i \in IfConfigs, w \in BOOLEAN}
    \cup {GuardedLoopGraph(m) : m \in 1..MaxIterationsBound}
    \cup {ActionGraph("C", m) : m \in Constructed("command", CommandConfigs)}
    \cup {ActionGraph("D", m) : m \in Constructed("file_delete", FileDeleteConfigs)}

\* ids of the nodes that are visited
VisitIds == {"L", "W", "Q", "I", "C", "D"}

NodeInit ==
    /\ \E g \in NodeGraphs : /\ nodes = g.nodes
                              /\ edges = g.edges
                              /\ reverse_edges = g.reverse_edges
    /\ op = [name |-> "visit", err |-> "none"]
    /\ pc = "visit"
    /\ max_steps = 0
    /\ has_stop = FALSE
    /\ stop_flag = FALSE
    /\ loop_back_map = << >>
    /\ current = None
    /\ executed_steps = 0
    /\ context = EmptyContext
    /\ err = NoFailure
    /\ polls = 0
    /\ trace = << >>
    /\ copied = NoCopy
    /\ runner = WorkflowRunner_init

\* node.execute(context, runtime) and, when it returns, node.determine_next(
\* graph, context) on node n against the one context; current takes the target
\* determine_next returns, err the exception either call raises
Visit(n) ==
    /\ pc = "visit"
    /\ n \in DOMAIN nodes
    /\ Len(trace) < MaxVisits
    /\ trace' = Append(trace, n)
    /\ executed_steps' = executed_steps + 1
    /\ \E x \in execute(n, nodes[n], context) :
          IF x.exc # "none"
          THEN /\ err' = Failure(x.exc, None,
                                  IF "msg" \in DOMAIN x THEN x.msg
                                  ELSE "execute failed",
                                  "execute")
               /\ context' = x.context
               /\ current' = None
          ELSE LET d == determine_next(Graph, n, nodes[n], x.context)
               IN  /\ context' = d.context
                   /\ IF d.exc # "none"
                      THEN /\ err' = Failure(d.exc, None, "determine_next failed",
                                             "determine_next")
                           /\ current' = None
                      ELSE /\ err' = NoFailure
                           /\ current' = d.next
    /\ UNCHANGED <<nodes, edges, reverse_edges, op, pc, max_steps, has_stop,
                   stop_flag, loop_back_map, polls>>
    /\ UNCHANGED copied
    /\ UNCHANGED runner

NodeNext == \E n \in VisitIds : Visit(n)

NodeSpec == NodeInit /\ [][NodeNext]_vars

-----------------------------------------------------------------------------
(* One executor running one graph object again and again *)

\* a chain of two action nodes
ChainGraph ==
    add_edges(add_nodes(EmptyGraph, <<<<"A", ClickModel>>, <<"B", ClickModel>>>>),
              <<<<"A", 0, "B", 0>>>>)

\* two action nodes without an edge: validate() refuses the graph
SplitGraph == add_nodes(EmptyGraph, <<<<"A", ClickModel>>, <<"B", ClickModel>>>>)

\* a For loop L whose finished output leads to the branch node I and whose
\* loop entry leads to the condition node Q; the result output of Q is wired
\* into the condition input of I, the 'next' output of Q leads to F
SkippedConditionGraph(end) ==
    add_edges(add_nodes(EmptyGraph,
                  <<<<"L", [type |-> "for_loop",
                            config |-> [start |-> 0, end |-> end, step |-> 1,
                                        max_iterations |-> 3]]>>,
                    <<"Q", [type |-> "condition_equals",
                            config |-> [left_expression |-> "5",
                                        right_expression |-> "5"]]>>,
                    <<"I", [type |-> "if_condition",
                            config |-> [expression |-> "True"]]>>,
                    <<"A", ClickModel>>, <<"B", ClickModel>>, <<"F", ClickModel>>>>),
              <<<<"L", 0, "I", 0>>, <<"L", 1, "Q", 0>>, <<"L", 2, "B", 0>>,
                <<"Q", 0, "F", 0>>, <<"Q", 1, "I", 1>>, <<"I", 0, "A", 0>>>>)

\* the graphs that are run
RunGraphs ==
    {ChainGraph, SplitGraph, SkippedConditionGraph(0), SkippedConditionGraph(3),
     LoopGraph("L", [type |-> "for_loop",
                     config |-> [start |-> 0, end |-> 3, step |-> 1,
                                 max_iterations |-> 3]]),
     LoopGraph("W", [type |-> "while_loop",
                     config |-> [expression |-> "True", max_iterations |-> 5]]),
     BranchGraph([left_expression |-> "5", right_expression |-> "6"],
                 [expression |-> "True"], TRUE)}

RunInit ==
    /\ \E g \in RunGraphs : /\ nodes = g.nodes
                             /\ edges = g.edges
                             /\ reverse_edges = g.reverse_edges
    /\ op = [name |-> "init", err |-> "none"]
    /\ RunIdle
    /\ copied = NoCopy
    /\ runner = WorkflowRunner_init

\* run(graph) is called again on the same executor and graph object while the
\* caller still holds the context of the run before
RunAgain(with_stop, stop) ==
    /\ pc \in {"done", "failed"}
    /\ context.created
    /\ has_stop' = with_stop
    /\ stop_flag' = (with_stop /\ stop)
    /\ polls' = 0
    /\ trace' = << >>
    /\ executed_steps' = 0
    /\ IF validate(Graph) # {}
       THEN /\ \E e \in validate(Graph) :
                  err' = Failure("ExecutionError", None, e, "validate")
            /\ pc' = "failed"
            /\ context' = NoContext
            /\ loop_back_map' = << >>
            /\ current' = None
       ELSE /\ err' = NoFailure
            /\ pc' = "loop"
            /\ context' = ExecutionContext_init(context)
            /\ loop_back_map' = build_loop_back_map(Graph)
            /\ current' = CHOOSE n \in entry_nodes(Graph) : TRUE
    /\ op' = [name |-> "run again", err |-> "none",
              held |-> DOMAIN context.results]
    /\ UNCHANGED <<nodes, edges, reverse_edges, max_steps>>
    /\ UNCHANGED copied
    /\ UNCHANGED runner

RunNext ==
    \/ \E steps \in 1..MaxStepsBound : \E with_stop \in BOOLEAN : \E stop \in BOOLEAN :
          RunStart(steps, with_stop, stop)
    \/ \E with_stop \in BOOLEAN : \E stop \in BOOLEAN : RunAgain(with_stop, stop)
    \/ Step
    \/ Stop
    \/ Return

RunSpec == RunInit /\ [][RunNext]_vars

-----------------------------------------------------------------------------
(* _run_from on every start node: run() passes it the entry node only, the  *)
(* walk below starts it at each node of the graph in turn                   *)

\* a loop graph whose tail target B is followed by G when chained is true
TailGraph(id, model, chained) ==
    IF chained
    THEN add_edges(add_nodes(LoopGraph(id, model), <<<<"G", ClickModel>>>>),
                   <<<<"B", 0, "G", 0>>>>)
    ELSE LoopGraph(id, model)

\* the graphs that are walked
WalkGraphs ==
    {TailGraph("L", [type |-> "for_loop",
                     config |-> [start |-> 0, end |-> e, step |-> 1,
                                 max_iterations |-> 3]], c) :
        e \in {0, 3}, c \in BOOLEAN}
    \cup {TailGraph("W", [type |-> "while_loop",
                          config |-> [expression |-> x, max_iterations |-> 5]], c) :
            x \in {"True", "False"}, c \in BOOLEAN}

\* executor._run_from(start_id, graph, context, None, 0, loop_back_map) with
\* the map and the context run() makes for the graph
WalkInit ==
    /\ \E g \in WalkGraphs :
          /\ nodes = g.nodes
          /\ edges = g.edges
          /\ reverse_edges = g.reverse_edges
          /\ loop_back_map = build_loop_back_map(g)
          /\ current \in DOMAIN g.nodes
    /\ op = [name |-> "_run_from", err |-> "none"]
    /\ pc = "loop"
    /\ max_steps \in 1..MaxStepsBound
    /\ has_stop = FALSE
    /\ stop_flag = FALSE
    /\ executed_steps = 0
    /\ context = EmptyContext
    /\ err = NoFailure
    /\ polls = 0
    /\ trace = << >>
    /\ copied = NoCopy
    /\ runner = WorkflowRunner_init

WalkNext == Step

WalkSpec == WalkInit /\ [][WalkNext]_vars

-----------------------------------------------------------------------------
(* Expressions as syntax trees: ast.parse, _validate_expression_ast and the  *)
(* evaluation of the compiled tree.  An identifier is the sequence of its    *)
(* characters; a value carries its Python type.                              *)

IntV(n) == [t |-> "int", v |-> n]
StrV(text) == [t |-> "str", s |-> text]
NoneV == [t |-> "none"]
FnV(name) == [t |-> "fn", name |-> name]
DictV == [t |-> "dict"]
ObjectV == [t |-> "object"]

\* the syntax nodes of ast
Constant(value) == [type |-> "Constant", value |-> value]
Name(id) == [type |-> "Name", id |-> id]
BinOp(left, operator, right) ==
    [type |-> "BinOp", left |-> left, op |-> operator, right |-> right]
Compare(left, operator, right) ==
    [type |-> "Compare", left |-> left, op |-> operator, right |-> right]
Call(func, args) == [type |-> "Call", func |-> func, args |-> args]
Attribute(value, attr) == [type |-> "Attribute", value |-> value, attr |-> attr]
Lambda(body) == [type |-> "Lambda", body |-> body]

id_value == <<"v", "a", "l", "u", "e">>
id_results == <<"r", "e", "s", "u", "l", "t", "s">>
id_len == <<"l", "e", "n">>
id_True == <<"T", "r", "u", "e">>
id_False == <<"F", "a", "l", "s", "e">>
id_None == <<"N", "o", "n", "e">>
id_iteration == <<"i", "t", "e", "r", "a", "t", "i", "o", "n">>
id_import == <<"_", "_", "i", "m", "p", "o", "r", "t", "_", "_">>
id_class == <<"_", "_", "c", "l", "a", "s", "s", "_", "_">>
id_get == <<"g", "e", "t">>
id_x == <<"_", "x">>

\* the expression texts of the model
ExpressionTexts ==
    {"True", "False", "5", "6", "1/0", "iteration < 2",
     "2 + 3 * value('nodeA')", "value('nodeB')", "len(results) + 1",
     "__class__", "results.__class__", "__import__('os')",
     "len(results) + __import__('os')", "results.get('nodeA')",
     "lambda: value('nodeA')", "_x", "results.get"}

\* ast.parse(expr, mode="eval").body for the texts of the model
parse(expr) ==
    CASE expr = "True" -> Name(id_True)
      [] expr = "False" -> Name(id_False)
      [] expr = "5" -> Constant(IntV(5))
      [] expr = "6" -> Constant(IntV(6))
      [] expr = "1/0" -> BinOp(Constant(IntV(1)), "Div", Constant(IntV(0)))
      [] expr = "iteration < 2" -> Compare(Name(id_iteration), "Lt", Constant(IntV(2)))
      [] expr = "2 + 3 * value('nodeA')" ->
            BinOp(Constant(IntV(2)), "Add",
                  BinOp(Constant(IntV(3)), "Mult",
                        Call(Name(id_value), <<Constant(StrV("nodeA"))>>)))
      [] expr = "value('nodeB')" -> Call(Name(id_value), <<Constant(StrV("nodeB"))>>)
      [] expr = "len(results) + 1" ->
            BinOp(Call(Name(id_len), <<Name(id_results)>>), "Add", Constant(IntV(1)))
      [] expr = "__class__" -> Name(id_class)
      [] expr = "results.__class__" -> Attribute(Name(id_results), id_class)
      [] expr = "__import__('os')" -> Call(Name(id_import), <<Constant(StrV("os"))>>)
      [] expr = "len(results) + __import__('os')" ->
            BinOp(Call(Name(id_len), <<Name(id_results)>>), "Add",
                  Call(Name(id_import), <<Constant(StrV("os"))>>))
      [] expr = "results.get('nodeA')" ->
            Call(Attribute(Name(id_results), id_get), <<Constant(StrV("nodeA"))>>)
      [] expr = "lambda: value('nodeA')" ->
            Lambda(Call(Name(id_value), <<Constant(StrV("nodeA"))>>))
      [] expr = "_x" -> Name(id_x)
      [] expr = "results.get" -> Attribute(Name(id_results), id_get)

\* _ALLOWED_EXPR_NODES, as far as the node types of the model go
ALLOWED_EXPR_NODES ==
    {"Constant", "Name", "BinOp", "Compare", "Call", "Attribute"}

\* the keys of _ALLOWED_CALLABLES
ALLOWED_CALLABLES ==
    {<<"l", "e", "n">>,
     <<"m", "i", "n">>,
     <<"m", "a", "x">>,
     <<"s", "u", "m">>,
     <<"a", "n", "y">>,
     <<"a", "l", "l">>,
     <<"a", "b", "s">>,
     <<"r", "o", "u", "n", "d">>,
     <<"i", "n", "t">>,
     <<"f", "l", "o", "a", "t">>,
     <<"s", "t", "r">>,
     <<"b", "o", "o", "l">>,
     <<"r", "a", "n", "g", "e">>}

\* _ADDITIONAL_ALLOWED_CALLS
ADDITIONAL_ALLOWED_CALLS == {id_value}

\* str.startswith("__")
startswith_dunder(id) == Len(id) >= 2 /\ id[1] = "_" /\ id[2] = "_"

\* ast.iter_child_nodes
children(node) ==
    CASE node.type \in {"BinOp", "Compare"} -> <<node.left, node.right>>
      [] node.type = "Call" -> <<node.func>> \o node.args
      [] node.type = "Attribute" -> <<node.value>>
      [] node.type = "Lambda" -> <<node.body>>
      [] OTHER -> << >>

\* ast.walk: the nodes breadth first, starting from the queue given
RECURSIVE walk(_)
walk(queue) ==
    IF queue = << >> THEN << >>
    ELSE <<Head(queue)>> \o walk(Tail(queue) \o children(Head(queue)))

\* the test _validate_expression_ast makes on one node: the message of the
\* ExecutionError it raises, "none" if it raises none
validate_node(node) ==
    IF node.type \notin ALLOWED_EXPR_NODES THEN "unsupported syntax"
    ELSE IF node.type = "Call"
            /\ (node.func.type # "Name"
                \/ node.func.id \notin (ALLOWED_CALLABLES \cup ADDITIONAL_ALLOWED_CALLS))
    THEN "unsupported call"
    ELSE IF node.type = "Attribute" /\ startswith_dunder(node.attr)
    THEN "dunder attribute"
    ELSE IF node.type = "Name" /\ startswith_dunder(node.id)
    THEN "dunder name"
    ELSE "none"

\* _validate_expression_ast: the message of the first failing node in walk
\* order, "none" if every node passes
validate_expression_ast(tree) ==
    LET order == walk(<<tree>>)
        failing == {i \in 1..Len(order) : validate_node(order[i]) # "none"}
    IN  IF failing = {} THEN "none"
        ELSE validate_node(order[CHOOSE i \in failing : \A j \in failing : i <= j])

\* the scope evaluate_expression builds: the allowed callables, the name
\* overrides, results, value and the extra values
expression_scope(ctx, extra_values) ==
    extra_values
    @@ (id_results :> DictV @@ id_value :> FnV(id_value))
    @@ (id_True :> IntV(1) @@ id_False :> IntV(0) @@ id_None :> NoneV)
    @@ [id \in ALLOWED_CALLABLES |-> FnV(id)]

\* the outcome of one evaluation step: the exception, the value and the
\* nodes evaluated so far
Raised(exc, log) == [exc |-> exc, value |-> NoneV, log |-> log]
Returned(value, log) == [exc |-> "none", value |-> value, log |-> log]

\* the arithmetic and comparison operators on two values
apply_operator(operator, left, right, log) ==
    IF left.t # "int" \/ right.t # "int" THEN Raised("TypeError", log)
    ELSE CASE operator = "Add" -> Returned(IntV(left.v + right.v), log)
           [] operator = "Mult" -> Returned(IntV(left.v * right.v), log)
           [] operator = "Div" ->
                IF right.v = 0 THEN Raised("ZeroDivisionError", log)
                ELSE Returned(IntV(left.v \div right.v), log)
           [] operator = "Lt" ->
                Returned(IntV(IF left.v < right.v THEN 1 ELSE 0), log)

\* the call of a function of the scope on one argument
apply_function(fn, arg, ctx, log) ==
    IF fn.t # "fn" THEN Raised("TypeError", log)
    ELSE IF fn.name = id_value
    THEN IF arg.t = "str" /\ arg.s \in DOMAIN ctx.results
         THEN Returned(ctx.results[arg.s], log)
         ELSE Returned(NoneV, log)
    ELSE IF fn.name = id_len
    THEN IF arg.t = "dict"
         THEN Returned(IntV(Cardinality(DOMAIN ctx.results)), log)
         ELSE Raised("TypeError", log)
    ELSE Returned(ObjectV, log)

\* eval of the compiled tree: operands left to right, then the operation
RECURSIVE eval_node(_, _, _)
eval_node(node, scope, ctx) ==
    CASE node.type = "Constant" -> Returned(node.value, <<node.type>>)
      [] node.type = "Name" ->
            IF node.id \in DOMAIN scope
            THEN Returned(scope[node.id], <<node.type>>)
            ELSE Raised("NameError", <<node.type>>)
      [] node.type \in {"BinOp", "Compare"} ->
            LET left == eval_node(node.left, scope, ctx)
                right == eval_node(node.right, scope, ctx)
            IN  IF left.exc # "none" THEN left
                ELSE IF right.exc # "none"
                THEN Raised(right.exc, left.log \o right.log)
                ELSE apply_operator(node.op, left.value, right.value,
                                    left.log \o right.log \o <<node.type>>)
      [] node.type = "Call" ->
            LET fn == eval_node(node.func, scope, ctx)
                arg == eval_node(node.args[1], scope, ctx)
            IN  IF fn.exc # "none" THEN fn
                ELSE IF arg.exc # "none" THEN Raised(arg.exc, fn.log \o arg.log)
                ELSE apply_function(fn.value, arg.value, ctx,
                                    fn.log \o arg.log \o <<node.type>>)
      [] node.type = "Attribute" ->
            LET value == eval_node(node.value, scope, ctx)
            IN  IF value.exc # "none" THEN value
                ELSE Returned(ObjectV, Append(value.log, node.type))
      [] node.type = "Lambda" -> Returned(FnV(<<"lambda">>), <<node.type>>)

\* a slip in evaluate_expression: the tree is evaluated before it is checked
evaluate_expression_tree_evaluated_first(expression, ctx, extra_values) ==
    LET tree == parse(strip(expression))
        checked == validate_expression_ast(tree)
        outcome == eval_node(tree, expression_scope(ctx, extra_values), ctx)
    IN  IF strip(expression) = "" THEN Raised("ExecutionError", << >>)
        ELSE IF checked # "none" THEN Raised("ExecutionError", outcome.log)
        ELSE outcome

\* evaluate_expression on a parsed text: the tree is checked, and only a
\* tree that passes is compiled and evaluated in the scope
evaluate_expression_tree(expression, ctx, extra_values) ==
    LET tree == parse(strip(expression))
        checked == validate_expression_ast(tree)
    IN  IF strip(expression) = "" THEN Raised("ExecutionError", << >>)
        ELSE IF checked # "none" THEN Raised("ExecutionError", << >>)
        ELSE eval_node(tree, expression_scope(ctx, extra_values), ctx)

\* the contexts expressions are evaluated in: nodeA without a result, with a
\* numeric or with a text result, nodeB with or without a numeric result
ExpressionContexts ==
    {[created |-> TRUE, results |-> a @@ b] :
        a \in {<< >>} \cup {"nodeA" :> IntV(n) : n \in 0..MaxResult}
              \cup {"nodeA" :> StrV("ok")},
        b \in {<< >>, "nodeB" :> IntV(5)}}

ExpressionInit ==
    /\ nodes = EmptyGraph.nodes
    /\ edges = EmptyGraph.edges
    /\ reverse_edges = EmptyGraph.reverse_edges
    /\ op = [name |-> "init", err |-> "none"]
    /\ pc = "idle"
    /\ max_steps = 0
    /\ has_stop = FALSE
    /\ stop_flag = FALSE
    /\ loop_back_map = << >>
    /\ current = None
    /\ executed_steps = 0
    /\ context \in ExpressionContexts
    /\ err = NoFailure
    /\ polls = 0
    /\ trace = << >>
    /\ copied = NoCopy
    /\ runner = WorkflowRunner_init

\* evaluate_expression(expression, context, {"iteration": iteration})
Evaluate(expression, iteration) ==
    /\ op.name = "init"
    /\ LET r == evaluate_expression_tree(expression, context,
                                         id_iteration :> IntV(iteration))
       IN  op' = [name |-> "evaluate_expression", err |-> r.exc,
                  expression |-> expression, iteration |-> iteration,
                  value |-> r.value, evaluated |-> r.log]
    /\ UNCHANGED <<nodes, edges, reverse_edges, pc, max_steps, has_stop, stop_flag,
                   loop_back_map, current, executed_steps, context, err, polls,
                   trace>>
    /\ UNCHANGED copied
    /\ UNCHANGED runner

ExpressionNext ==
    \E expression \in ExpressionTexts \cup {"", " "} : \E iteration \in {1, 2} :
        Evaluate(expression, iteration)

ExpressionSpec == ExpressionInit /\ [][ExpressionNext]_vars

-----------------------------------------------------------------------------
(* copy(): the editor's graph, the graph copy() returned, and the changes    *)
(* made to either afterwards                                                 *)

\* the orders in which a dictionary may hold the keys of set S
Orders(S) ==
    {order \in [1..Cardinality(S) -> S] :
        \A i, j \in 1..Cardinality(S) : order[i] = order[j] => i = j}

\* copy(): the reverse list of target t, appended to while the forward lists
\* are walked source by source in the order given
RECURSIVE copy_incoming(_, _, _)
copy_incoming(g, order, t) ==
    IF order = << >> THEN << >>
    ELSE LET source == Head(order)
             to_t == SelectSeq(g.edges[source], LAMBDA e : e.target = t)
         IN  [i \in 1..Len(to_t) |->
                 IncomingEdge(source, to_t[i].target_port, to_t[i].source_port)]
             \o copy_incoming(g, Tail(order), t)

\* WorkflowGraph.copy: the exception raised ("none" if none), the new graph
\* and the ids of the node objects the two graphs share.  Every node is
\* constructed again from a copy of its configuration; the order of a
\* reverse list follows the order in which the nodes are held.
copy(g) ==
    IF \E n \in DOMAIN g.nodes :
          WorkflowNodeModel_init(g.nodes[n].type, g.nodes[n].config).exc # "none"
    THEN {[exc |-> "ValueError", graph |-> EmptyGraph, shared |-> {}]}
    ELSE {[exc |-> "none",
           graph |-> [nodes |-> [n \in DOMAIN g.nodes |->
                           WorkflowNodeModel_init(g.nodes[n].type,
                                                  g.nodes[n].config).model],
                      edges |-> g.edges,
                      reverse_edges |-> [t \in DOMAIN g.reverse_edges |->
                           copy_incoming(g, order, t)]],
           shared |-> {}] : order \in Orders(DOMAIN g.nodes)}

\* ui.configure_node on one node model: the dialog's values are written into
\* the configuration, then validate_config runs; when it raises, the values
\* written stay in the node
configure_node(model, new_values) ==
    LET updated == new_values @@ model.config
        v == validate_config(model.type, updated)
    IN  [exc |-> v.exc,
         model |-> [model EXCEPT !.config = IF v.exc = "none" THEN v.config
                                            ELSE updated]]

\* the values a configuration dialog returns for a node of the type
DialogValues(type_name) ==
    CASE type_name = "command" ->
            [command : {"", "dir", "ls"}, timeout : {60}, on_error : {"raise"}]
      [] type_name = "while_loop" ->
            [expression : {"", "True", "False"}, max_iterations : {5}]
      [] OTHER -> {}

\* the graphs of the editor
CopyGraphs ==
    {ActionGraph("C", m) :
        m \in Constructed("command",
                 [command : {"dir"}, timeout : {60}, on_error : {"raise", "ignore"}])}
    \cup {LoopGraph("W", [type |-> "while_loop",
                           config |-> [expression |-> "True", max_iterations |-> 5]])}

\* the graph object copy() returned
CopiedGraph ==
    [nodes |-> copied.nodes, edges |-> copied.edges,
     reverse_edges |-> copied.reverse_edges]

\* the copy takes the value of graph object g
SetCopied(g) ==
    copied' = [made |-> TRUE, nodes |-> g.nodes, edges |-> g.edges,
               reverse_edges |-> g.reverse_edges,
               shared |-> copied.shared \cap DOMAIN g.nodes]

CopyInit ==
    /\ \E g \in CopyGraphs : /\ nodes = g.nodes
                              /\ edges = g.edges
                              /\ reverse_edges = g.reverse_edges
    /\ op = [name |-> "init", err |-> "none"]
    /\ RunIdle
    /\ copied = NoCopy
    /\ runner = WorkflowRunner_init

\* configure_node on node n of the editor's graph
Configure(n, new_values) ==
    /\ pc = "idle"
    /\ n \in DOMAIN nodes
    /\ LET r == configure_node(nodes[n], new_values)
       IN  /\ nodes' = [nodes EXCEPT ![n] = r.model]
           /\ op' = [name |-> "configure_node", err |-> r.exc]
           /\ copied' = IF n \in copied.shared
                        THEN [copied EXCEPT !.nodes[n] = r.model]
                        ELSE copied
    /\ UNCHANGED <<edges, reverse_edges>>
    /\ UNCHANGED runVars
    /\ UNCHANGED runner

\* graph.copy() on the editor's graph
Copy ==
    /\ pc = "idle"
    /\ ~copied.made
    /\ \E r \in copy(Graph) :
          /\ op' = [name |-> "copy", err |-> r.exc]
          /\ copied' = IF r.exc = "none"
                       THEN [made |-> TRUE, nodes |-> r.graph.nodes,
                             edges |-> r.graph.edges,
                             reverse_edges |-> r.graph.reverse_edges,
                             shared |-> r.shared]
                       ELSE NoCopy
    /\ UNCHANGED <<nodes, edges, reverse_edges>>
    /\ UNCHANGED runVars
    /\ UNCHANGED runner

\* configure_node on node n of the copy
CopyConfigure(n, new_values) ==
    /\ copied.made
    /\ n \in DOMAIN copied.nodes
    /\ LET r == configure_node(copied.nodes[n], new_values)
       IN  /\ copied' = [copied EXCEPT !.nodes[n] = r.model]
           /\ op' = [name |-> "copy.configure_node", err |-> r.exc]
           /\ nodes' = IF n \in copied.shared
                       THEN [nodes EXCEPT ![n] = r.model]
                       ELSE nodes
    /\ UNCHANGED <<edges, reverse_edges>>
    /\ UNCHANGED runVars
    /\ UNCHANGED runner

\* add_node, remove_node, add_edge and remove_edge on the copy
CopyAddNode(id, config) ==
    /\ copied.made
    /\ LET r == add_node(CopiedGraph, id, [type |-> NodeClass(id), config |-> config])
       IN  /\ SetCopied(r.g)
           /\ op' = [name |-> "copy.add_node", err |-> r.err]
    /\ UNCHANGED <<nodes, edges, reverse_edges>>
    /\ UNCHANGED runVars
    /\ UNCHANGED runner

CopyRemoveNode(id) ==
    /\ copied.made
    /\ SetCopied(remove_node(CopiedGraph, id))
    /\ op' = [name |-> "copy.remove_node", err |-> "none"]
    /\ UNCHANGED <<nodes, edges, reverse_edges>>
    /\ UNCHANGED runVars
    /\ UNCHANGED runner

CopyAddEdge(source_id, source_port, target_id, target_port) ==
    /\ copied.made
    /\ LET r == add_edge(CopiedGraph, source_id, target_id, source_port, target_port)
       IN  /\ SetCopied(r.g)
           /\ op' = [name |-> "copy.add_edge", err |-> r.err]
    /\ UNCHANGED <<nodes, edges, reverse_edges>>
    /\ UNCHANGED runVars
    /\ UNCHANGED runner

CopyRemoveEdge(source_id, target_id, source_port, target_port) ==
    /\ copied.made
    /\ SetCopied(remove_edge(CopiedGraph, source_id, target_id, source_port,
                             target_port))
    /\ op' = [name |-> "copy.remove_edge", err |-> "none"]
    /\ UNCHANGED <<nodes, edges, reverse_edges>>
    /\ UNCHANGED runVars
    /\ UNCHANGED runner

\* type_name of the node with the id in the graphs of the editor
NodeClassOf(id) == IF id = "C" THEN "command" ELSE "while_loop"

\* the calls made on either graph once the copy exists
CopyNodeIds == {"A", "F"}
CopyEdgeRequests == {<<"A", 0, "F", 0>>, <<"F", 0, "A", 0>>}
CopyRemoveRequests == {<<"C", "A", << >>, << >>>>, <<"W", "A", <<1>>, <<0>>>>}

CopyNext ==
    \/ \E n \in {"C", "W"} : \E v \in DialogValues(NodeClassOf(n)) : Configure(n, v)
    \/ Copy
    \/ copied.made /\ \E id \in CopyNodeIds : \E c \in NodeConfigs(id) : AddNode(id, c)
    \/ copied.made /\ \E id \in CopyNodeIds : RemoveNode(id)
    \/ copied.made /\ \E r \in CopyEdgeRequests : AddEdge(r[1], r[2], r[3], r[4])
    \/ copied.made /\ \E r \in CopyRemoveRequests : RemoveEdge(r[1], r[2], r[3], r[4])
    \/ \E n \in {"C", "W"} : \E v \in DialogValues(NodeClassOf(n)) : CopyConfigure(n, v)
    \/ \E id \in CopyNodeIds : \E c \in NodeConfigs(id) : CopyAddNode(id, c)
    \/ \E id \in CopyNodeIds : CopyRemoveNode(id)
    \/ \E r \in CopyEdgeRequests : CopyAddEdge(r[1], r[2], r[3], r[4])
    \/ \E r \in CopyRemoveRequests : CopyRemoveEdge(r[1], r[2], r[3], r[4])

CopySpec == CopyInit /\ [][CopyNext]_vars

-----------------------------------------------------------------------------
(* WorkflowRunner (src/ui.py): the UI thread starts one worker thread per   *)
(* run; the worker copies the editor's graph, runs it and emits finished,   *)
(* which is queued for the UI thread.  Handlers of the UI thread are atomic *)
(* with respect to each other and interleave with the steps of the worker.  *)

\* largest number of workers the runner creates
MaxRuns == 2

\* the default of WorkflowExecutor.__init__'s max_steps
DefaultMaxSteps == 10000

\* ids of the nodes the editor adds and removes while a runner exists
RunnerNodeIds == {"A", "B"}

\* the edges the editor adds and removes while a runner exists
RunnerEdgeRequests == {<<"A", 0, "B", 0>>, <<"B", 0, "A", 0>>}

\* _WorkflowRunnerWorker.__init__ in WorkflowRunner.run: a worker holding the
\* stop event of its run; seen collects the values the editor's graph has
\* between the start and the end of the worker's copy()
WorkflowRunnerWorker_init(event) ==
    [pc |-> "started", event |-> event, touched |-> FALSE, seen |-> {},
     nodes_copy |-> << >>, graph_copy |-> EmptyGraph, copied_ok |-> FALSE,
     loop_back_map |-> << >>, current |-> None, context |-> NoContext,
     executed_steps |-> 0, trace |-> << >>]

\* a slip in WorkflowRunner.run: the running flag is not consulted
WorkflowRunner_run_unguarded(r) ==
    [r EXCEPT !.events = DictSet(@, Len(r.workers) + 1, FALSE),
              !.stop_event = Len(r.workers) + 1,
              !.workers = Append(@, WorkflowRunnerWorker_init(Len(r.workers) + 1)),
              !.running = TRUE,
              !.is_running = TRUE,
              !.emitted = NoSignal]

\* WorkflowRunner.run: nothing while a run is in progress; otherwise a new
\* Event, a new worker on a new thread, the running flag, and started, whose
\* slot _on_runner_started sets the window's _is_running
WorkflowRunner_run(r) ==
    IF r.running THEN r
    ELSE [r EXCEPT !.events = DictSet(@, Len(r.workers) + 1, FALSE),
                   !.stop_event = Len(r.workers) + 1,
                   !.workers = Append(@, WorkflowRunnerWorker_init(Len(r.workers) + 1)),
                   !.running = TRUE,
                   !.is_running = TRUE,
                   !.emitted = NoSignal]

\* WorkflowRunner.stop: sets the stop event of the run in progress
WorkflowRunner_stop(r) ==
    IF ~r.running \/ r.stop_event = 0 THEN r
    ELSE [r EXCEPT !.events[r.stop_event] = TRUE]

\* _WorkflowRunnerWorker.run, its except and else clauses: the worker emits
\* finished(success, message), queued for the UI thread; after an exception
\* the message is the cancellation message whenever the stop event is set
worker_finished(r, i, w, success, exception) ==
    LET message == IF success THEN "completed"
                   ELSE IF r.events[w.event] THEN "cancelled"
                   ELSE exception
    IN  [r EXCEPT !.workers[i] = [w EXCEPT !.pc = "finished", !.seen = {}],
                  !.queue = Append(@, [worker |-> i, success |-> success,
                                       message |-> message])]

\* what a change of the editor's graph means to a worker inside copy(): the
\* new value g is one more value the graph had during the call, and a
\* dictionary that changed its size under a running iteration is noticed
edited(r, g, resized) ==
    [r EXCEPT !.workers =
        [i \in DOMAIN r.workers |->
            LET w == r.workers[i]
            IN  IF w.pc \in {"nodes", "between", "edges"}
                THEN [w EXCEPT !.seen = @ \cup {g},
                               !.touched = @ \/ (resized /\ w.pc \in {"nodes", "edges"})]
                ELSE w]]

RunnerInit ==
    /\ \E g \in {EmptyGraph, ChainGraph} : /\ nodes = g.nodes
                                           /\ edges = g.edges
                                           /\ reverse_edges = g.reverse_edges
    /\ op = [name |-> "init", err |-> "none"]
    /\ RunIdle
    /\ copied = NoCopy
    /\ runner = WorkflowRunner_init

\* WorkflowInterface.execute_workflow: refused while the window's _is_running
\* is set, on an empty graph and when topological_order() raises; otherwise
\* runner.run()
ExecuteWorkflow ==
    /\ runner.running \/ Len(runner.workers) < MaxRuns
    /\ LET refused == \/ runner.is_running
                      \/ nodes = << >>
                      \/ topological_order(Graph).exc # "none"
       IN  runner' = IF refused THEN runner ELSE WorkflowRunner_run(runner)
    /\ UNCHANGED <<nodes, edges, reverse_edges, op, copied>>
    /\ UNCHANGED runVars

\* runner.run() called on the runner itself; op tells whether the call
\* found a run in progress
RunnerRun ==
    /\ runner.running \/ Len(runner.workers) < MaxRuns
    /\ runner' = WorkflowRunner_run(runner)
    /\ op' = [name |-> "runner.run",
              err |-> IF runner.running THEN "ignored" ELSE "none"]
    /\ UNCHANGED <<nodes, edges, reverse_edges, copied>>
    /\ UNCHANGED runVars

\* runner.stop(), from WorkflowInterface.stop_workflow or on the runner itself
RunnerStop ==
    /\ runner' = WorkflowRunner_stop(runner)
    /\ UNCHANGED <<nodes, edges, reverse_edges, op, copied>>
    /\ UNCHANGED runVars

\* a worker whose finished signal was handled: worker.deleteLater
WorkerDeleted == [WorkflowRunnerWorker_init(0) EXCEPT !.pc = "handled"]

\* WorkflowRunner._handle_worker_finished, run by the UI thread for the signal
\* at the head of its queue: the running flag is reset, the stop event is
\* dropped, finished is emitted and its slot _on_runner_finished resets the
\* window's _is_running; the worker and with it the last reference to its
\* Event are deleted
HandleWorkerFinished ==
    /\ runner.queue # << >>
    /\ LET signal == Head(runner.queue)
       IN  runner' = [runner EXCEPT
                !.workers[signal.worker] = WorkerDeleted,
                !.running = FALSE,
                !.stop_event = 0,
                !.is_running = FALSE,
                !.events = DictDel(@, runner.workers[signal.worker].event),
                !.queue = Tail(@),
                !.emitted = signal]
    /\ UNCHANGED <<nodes, edges, reverse_edges, op, copied>>
    /\ UNCHANGED runVars

\* the editor adds node id to its graph
EditAddNode(id) ==
    /\ LET r == add_node(Graph, id, ClickModel)
       IN  /\ nodes' = r.g.nodes
           /\ edges' = r.g.edges
           /\ reverse_edges' = r.g.reverse_edges
           /\ runner' = edited(runner, r.g, r.err = "none")
    /\ UNCHANGED <<op, copied>>
    /\ UNCHANGED runVars

\* the editor removes node id from its graph
EditRemoveNode(id) ==
    /\ LET g == remove_node(Graph, id)
       IN  /\ nodes' = g.nodes
           /\ edges' = g.edges
           /\ reverse_edges' = g.reverse_edges
           /\ runner' = edited(runner, g, id \in DOMAIN nodes)
    /\ UNCHANGED <<op, copied>>
    /\ UNCHANGED runVars

\* the editor adds an edge to its graph
EditAddEdge(source_id, source_port, target_id, target_port) ==
    /\ LET r == add_edge(Graph, source_id, target_id, source_port, target_port)
       IN  /\ nodes' = r.g.nodes
           /\ edges' = r.g.edges
           /\ reverse_edges' = r.g.reverse_edges
           /\ runner' = edited(runner, r.g, FALSE)
    /\ UNCHANGED <<op, copied>>
    /\ UNCHANGED runVars

\* the editor removes an edge from its graph
EditRemoveEdge(source_id, source_port, target_id, target_port) ==
    /\ LET g == remove_edge(Graph, source_id, target_id, <<source_port>>,
                            <<target_port>>)
       IN  /\ nodes' = g.nodes
           /\ edges' = g.edges
           /\ reverse_edges' = g.reverse_edges
           /\ runner' = edited(runner, g, FALSE)
    /\ UNCHANGED <<op, copied>>
    /\ UNCHANGED runVars

\* the worker thread enters graph_supplier(), that is scene.graph.copy(), and
\* begins the loop over self.nodes.values()
WorkerBeginCopy(i) ==
    /\ runner.workers[i].pc = "started"
    /\ runner' = [runner EXCEPT !.workers[i].pc = "nodes",
                                !.workers[i].touched = FALSE,
                                !.workers[i].seen = {Graph}]
    /\ UNCHANGED <<nodes, edges, reverse_edges, op, copied>>
    /\ UNCHANGED runVars

\* copy(): the loop over self.nodes.values() ends.  A dictionary that changed
\* size during the iteration raises RuntimeError and a node constructor that
\* rejects its configuration raises ValueError; otherwise every node the
\* editor's graph holds was constructed again.
WorkerCopyNodes(i) ==
    /\ runner.workers[i].pc = "nodes"
    /\ LET w == runner.workers[i]
           rejected == \E n \in DOMAIN nodes :
                          WorkflowNodeModel_init(nodes[n].type, nodes[n].config).exc
                              # "none"
       IN  runner' =
             IF w.touched \/ rejected
             THEN worker_finished(runner, i, w, FALSE, "failed")
             ELSE [runner EXCEPT !.workers[i] =
                     [w EXCEPT !.pc = "between",
                               !.nodes_copy =
                                   [n \in DOMAIN nodes |->
                                       WorkflowNodeModel_init(nodes[n].type,
                                                              nodes[n].config).model]]]
    /\ UNCHANGED <<nodes, edges, reverse_edges, op, copied>>
    /\ UNCHANGED runVars

\* copy(): the loop over self.edges.items() begins
WorkerBeginEdges(i) ==
    /\ runner.workers[i].pc = "between"
    /\ runner' = [runner EXCEPT !.workers[i].pc = "edges",
                                !.workers[i].touched = FALSE]
    /\ UNCHANGED <<nodes, edges, reverse_edges, op, copied>>
    /\ UNCHANGED runVars

\* the edge lists copy() reads for the nodes it constructed
edges_read(w, g) ==
    [n \in DOMAIN w.nodes_copy |-> IF n \in DOMAIN g.edges THEN g.edges[n] ELSE << >>]

\* copy(): graph.edges[source] or graph.reverse_edges[edge.target] is looked
\* up for a node the copy does not hold
copy_key_error(w, g) ==
    \E source \in DOMAIN g.edges :
        /\ g.edges[source] # << >>
        /\ \/ source \notin DOMAIN w.nodes_copy
           \/ \E k \in 1..Len(g.edges[source]) :
                 g.edges[source][k].target \notin DOMAIN w.nodes_copy

\* copy(): the loop over self.edges.items() ends and copy() returns.  A
\* dictionary that changed size during the iteration raises RuntimeError, an
\* edge of a node the copy does not hold raises KeyError; otherwise the copy
\* holds the nodes constructed before and the edges read now.
WorkerCopyEdges(i) ==
    /\ runner.workers[i].pc = "edges"
    /\ LET w == runner.workers[i]
           read == [nodes |-> w.nodes_copy, edges |-> edges_read(w, Graph),
                    reverse_edges |-> [n \in DOMAIN w.nodes_copy |-> << >>]]
       IN  IF w.touched \/ copy_key_error(w, Graph)
           THEN runner' = worker_finished(runner, i, w, FALSE, "failed")
           ELSE \E c \in copy(read) :
                   runner' = [runner EXCEPT !.workers[i] =
                                [w EXCEPT !.pc = "copied",
                                          !.graph_copy = c.graph,
                                          !.copied_ok = TRUE]]
    /\ UNCHANGED <<nodes, edges, reverse_edges, op, copied>>
    /\ UNCHANGED runVars

\* WorkflowExecutor(runtime).run(graph_copy, should_stop=stop_event.is_set) up
\* to the first iteration of _run_from
WorkerRunStart(i) ==
    /\ runner.workers[i].pc = "copied"
    /\ LET w == runner.workers[i]
           g == w.graph_copy
       IN  runner' =
             IF validate(g) # {}
             THEN worker_finished(runner, i, w, FALSE, "ExecutionError")
             ELSE [runner EXCEPT !.workers[i] =
                     [w EXCEPT !.pc = "loop",
                               !.seen = {},
                               !.context = ExecutionContext_init(w.context),
                               !.loop_back_map = build_loop_back_map(g),
                               !.current = CHOOSE n \in entry_nodes(g) : TRUE]]
    /\ UNCHANGED <<nodes, edges, reverse_edges, op, copied>>
    /\ UNCHANGED runVars

\* one iteration of the while loop of _run_from in the worker thread, on the
\* worker's copy of the graph; when the loop ends or raises, run() returns
\* or raises and the worker emits finished
WorkerStep(i) ==
    /\ runner.workers[i].pc = "loop"
    /\ LET w == runner.workers[i]
           g == w.graph_copy
       IN  IF cancelled(TRUE, runner.events[w.event])
           THEN runner' = worker_finished(runner, i, w, FALSE, "ExecutionError")
           ELSE IF w.current \notin DOMAIN g.nodes
           THEN runner' = worker_finished(runner, i, w, FALSE, "ExecutionError")
           ELSE IF step_limit_exceeded(w.executed_steps + 1, DefaultMaxSteps)
           THEN runner' = worker_finished(runner, i,
                              [w EXCEPT !.executed_steps = @ + 1],
                              FALSE, "ExecutionError")
           ELSE \E x \in execute(w.current, g.nodes[w.current], w.context) :
                  LET d == determine_next(g, w.current, g.nodes[w.current], x.context)
                      next_id == next_target(d.next, w.current, w.loop_back_map)
                      executed == [w EXCEPT !.executed_steps = @ + 1,
                                            !.trace = Append(@, w.current)]
                  IN  IF x.exc # "none"
                      THEN runner' = worker_finished(runner, i,
                                         [executed EXCEPT !.context = x.context],
                                         FALSE, "ExecutionError")
                      ELSE IF d.exc # "none"
                      THEN runner' = worker_finished(runner, i,
                                         [executed EXCEPT !.context = d.context],
                                         FALSE, d.exc)
                      ELSE IF next_id = None
                      THEN runner' = worker_finished(runner, i,
                                         [executed EXCEPT !.context = d.context,
                                                          !.current = None],
                                         TRUE, "none")
                      ELSE runner' = [runner EXCEPT !.workers[i] =
                                        [executed EXCEPT !.context = d.context,
                                                         !.current = next_id]]
    /\ UNCHANGED <<nodes, edges, reverse_edges, op, copied>>
    /\ UNCHANGED runVars

\* the steps of the worker threads
WorkerNext ==
    \E i \in DOMAIN runner.workers :
        \/ WorkerBeginCopy(i)
        \/ WorkerCopyNodes(i)
        \/ WorkerBeginEdges(i)
        \/ WorkerCopyEdges(i)
        \/ WorkerRunStart(i)
        \/ WorkerStep(i)

RunnerNext ==
    \/ ExecuteWorkflow
    \/ RunnerRun
    \/ RunnerStop
    \/ HandleWorkerFinished
    \/ \E id \in RunnerNodeIds : EditAddNode(id)
    \/ \E id \in RunnerNodeIds : EditRemoveNode(id)
    \/ \E r \in RunnerEdgeRequests : EditAddEdge(r[1], r[2], r[3], r[4])
    \/ \E r \in RunnerEdgeRequests : EditRemoveEdge(r[1], r[2], r[3], r[4])
    \/ \E i \in DOMAIN runner.workers : WorkerBeginCopy(i)
    \/ \E i \in DOMAIN runner.workers : WorkerCopyNodes(i)
    \/ \E i \in DOMAIN runner.workers : WorkerBeginEdges(i)
    \/ \E i \in DOMAIN runner.workers : WorkerCopyEdges(i)
    \/ \E i \in DOMAIN runner.workers : WorkerRunStart(i)
    \/ \E i \in DOMAIN runner.workers : WorkerStep(i)

RunnerSpec == RunnerInit /\ [][RunnerNext]_vars

\* the worker thread keeps running and the UI thread's event loop delivers
\* every queued signal
FairRunnerSpec ==
    RunnerSpec /\ WF_vars(WorkerNext) /\ WF_vars(HandleWorkerFinished)

-----------------------------------------------------------------------------
(* Properties of a run *)

\* number of times execute() was called on node n in the run
Executions(n) == Cardinality({i \in 1..Len(trace) : trace[i] = n})

\* positions in the trace at which node n was executed
Positions(n) == {i \in 1..Len(trace) : trace[i] = n}

\* the graph contains a loop node
HasLoopNode == \E n \in DOMAIN nodes : IsLoopNode(nodes[n])

\* C1: in a completed run of a validated graph with the For loop L (start 0,
\* end 3, step 1, max_iterations 3), every execution of the loop's tail target
\* is followed by the loop node, the loop-entry target is executed three times
\* and the finished target is executed once, after the last of them.
C1_LoopIterates ==
    (pc = "done" /\ Executions("L") > 0) =>
        LET entry == get_outgoing_target(Graph, "L", 1)
            finished == get_outgoing_target(Graph, "L", 0)
            tail == get_outgoing_target(Graph, "L", 2)
        IN  /\ \A i \in Positions(tail) : i < Len(trace) /\ trace[i + 1] = "L"
            /\ Executions(entry) = 3
            /\ finished # None =>
                  /\ Executions(finished) = 1
                  /\ \A i \in Positions(entry), j \in Positions(finished) : i < j

C3_PollBeforeEachStep ==
    [][ /\ (has_stop' /\ pc' = "loop") => polls' = Len(trace')
        /\ (has_stop /\ trace' # trace /\ pc' # "idle") =>
              /\ pc = "loop" /\ ~stop_flag
              /\ polls' = polls + 1
              /\ Len(trace') = Len(trace) + 1
        /\ (polls' # polls /\ pc' # "idle" /\ pc # "idle") =>
              pc = "loop" /\ polls' = polls + 1
        /\ (pc = "loop" /\ has_stop /\ stop_flag) =>
              /\ pc' = "failed"
              /\ err' = Failure("ExecutionError", None, "Execution cancelled", "poll")
              /\ trace' = trace
              /\ context' = context
        /\ (pc = "failed" /\ err.phase = "poll") => pc' = "idle"
        /\ (pc' = "failed" /\ err'.phase = "poll" /\ polls' = 1) => trace' = << >>
      ]_vars

\* C3 witness: a run was cancelled after it had executed at least one node
C3_CancelledMidRun ==
    pc = "failed" /\ err.phase = "poll" /\ Len(trace) >= 1 /\ polls = Len(trace) + 1

\* C4: the number of node executions never exceeds max_steps; the step counter
\* goes up by one before each execution and is never reset during the run; the
\* run fails with the step-limit error when the counter exceeds max_steps, and
\* that node is not executed.
C4_StepLimit ==
    [][ /\ Len(trace') <= max_steps'
        /\ pc = "loop" =>
              /\ executed_steps' >= executed_steps
              /\ trace' # trace =>
                    /\ executed_steps' = executed_steps + 1
                    /\ executed_steps' <= max_steps
                    /\ executed_steps' = Len(trace')
        /\ (pc = "loop" /\ pc' = "failed" /\ err'.phase = "limit") =>
              /\ executed_steps' = max_steps + 1
              /\ err'.kind = "ExecutionError"
              /\ trace' = trace
              /\ context' = context
        /\ (pc = "loop" /\ executed_steps = max_steps /\ pc' # "loop") =>
              \/ (pc' = "failed" /\ err'.phase \in {"limit", "poll"})
              \/ trace' = trace
      ]_vars

\* C4 witness: a run hit the step limit after max_steps executions
C4_StepLimitHit ==
    pc = "failed" /\ err.phase = "limit" /\ Len(trace) = max_steps

\* C5: run() validates first; when validation fails the run raises that very
\* ExecutionError, no node is executed, should_stop is not polled and no
\* context exists; a graph that validates starts the walk.
C5_ValidateFirst ==
    [][ /\ (pc = "idle" /\ pc' # "idle" /\ validate(Graph) # {}) =>
              /\ pc' = "failed"
              /\ err'.kind = "ExecutionError"
              /\ err'.phase = "validate"
              /\ err'.msg \in validate(Graph)
              /\ trace' = << >>
              /\ polls' = 0
              /\ executed_steps' = 0
              /\ ~context'.created
        /\ (pc = "idle" /\ pc' # "idle" /\ validate(Graph) = {}) => pc' = "loop"
        /\ (pc = "failed" /\ err.phase = "validate") => pc' = "idle"
      ]_vars

\* C5 witness: a run of a non-empty graph failed in validation
C5_ValidationFailed ==
    pc = "failed" /\ err.phase = "validate" /\ DOMAIN nodes # {} /\ trace = << >>

\* C6: a failure raised while a node is processed, by its execute() or by its
\* determine_next(), escapes run() as an ExecutionError naming that node.
C6_FailuresNameNode ==
    (pc = "failed" /\ err.phase \in {"execute", "determine_next"}) =>
        /\ err.kind = "ExecutionError"
        /\ err.node = trace[Len(trace)]

-----------------------------------------------------------------------------
(* Properties of the graph *)

\* C7: no two edges start at the same (source node, output port) and no two
\* edges end at the same (target node, input port), in either index.
C7_PortsUsedOnce ==
    /\ \A n \in DOMAIN edges : \A i, j \in 1..Len(edges[n]) :
          i # j => edges[n][i].source_port # edges[n][j].source_port
    /\ \A n \in DOMAIN reverse_edges : \A i, j \in 1..Len(reverse_edges[n]) :
          i # j => reverse_edges[n][i].target_port # reverse_edges[n][j].target_port
    /\ \A n \in DOMAIN edges : \A m \in DOMAIN edges : \A i \in 1..Len(edges[n]) :
          \A j \in 1..Len(edges[m]) :
             (edges[n][i].target = edges[m][j].target
              /\ edges[n][i].target_port = edges[m][j].target_port)
                => (n = m /\ i = j)

\* C7 witness: add_edge has just refused a second edge into an occupied input
C7_SecondEdgeRefused ==
    /\ op = [name |-> "add_edge", err |-> "ValueError: input port occupied"]
    /\ EdgeCount(Graph) >= 1

\* the edges of the forward index, as (source, source_port, target, target_port)
ForwardSet ==
    UNION {{<<n, e.source_port, e.target, e.target_port>> : e \in Range(edges[n])} :
              n \in DOMAIN edges}

\* the edges of the reverse index, as (source, source_port, target, target_port)
ReverseSet ==
    UNION {{<<e.source, e.source_port, n, e.target_port>> : e \in Range(reverse_edges[n])} :
              n \in DOMAIN reverse_edges}

\* C8: the forward and the reverse index list the same edges, the same number
\* of times, both have exactly the node set as keys, and every edge endpoint
\* is a node of the graph.
C8_IndexesConsistent ==
    /\ DOMAIN edges = DOMAIN nodes
    /\ DOMAIN reverse_edges = DOMAIN nodes
    /\ ForwardSet = ReverseSet
    /\ EdgeCount(Graph) = Cardinality(ForwardSet)
    /\ EdgeCount([edges |-> reverse_edges]) = Cardinality(ReverseSet)
    /\ \A e \in ForwardSet \cup ReverseSet : e[1] \in DOMAIN nodes /\ e[3] \in DOMAIN nodes

\* C8 witness: a node was removed from a graph that still has edges and nodes
C8_NodeRemoved ==
    /\ op.name = "remove_node"
    /\ EdgeCount(Graph) >= 1
    /\ Cardinality(DOMAIN nodes) < Cardinality(NodeIds)

\* C9: a failing add_edge leaves the node set and both edge indexes as they were.
C9_FailedAddEdgeChangesNothing ==
    [][ (op'.name = "add_edge" /\ op'.err # "none") =>
            (nodes' = nodes /\ edges' = edges /\ reverse_edges' = reverse_edges) ]_vars

\* C9 witness: add_edge has failed on a graph that already holds two edges
C9_AddEdgeFailed ==
    /\ op.name = "add_edge"
    /\ op.err \in {"ValueError: output port occupied", "ValueError: connection exists",
                   "ValueError: input port occupied"}
    /\ EdgeCount(Graph) >= 2

\* run() was called on the graph and validate() raised
ValidateFailed == pc = "failed" /\ err.phase = "validate"

\* every node is connected to the entry node over control-port edges
AllConnected == Reachable(Graph, entry_nodes(Graph)) = DOMAIN nodes

\* output port p of node n has an edge
Wired(n, p) == \E i \in 1..Len(edges[n]) : edges[n][i].source_port = p

\* every condition node has both outputs wired, every loop node its loop
\* entry and loop tail outputs
RequiredPortsWired ==
    \A n \in DOMAIN nodes :
        /\ IsConditionNodeBase(nodes[n]) => Wired(n, 0) /\ Wired(n, 1)
        /\ IsLoopNode(nodes[n]) => Wired(n, 1) /\ Wired(n, 2)

\* every branch node has its condition input wired or a non-empty expression
BranchesDecidable ==
    \A n \in DOMAIN nodes :
        IsIfConditionNode(nodes[n]) =>
            \/ \E i \in 1..Len(reverse_edges[n]) : reverse_edges[n][i].target_port = 1
            \/ nodes[n].config.expression # ""

\* C10 as stated: validate() fails when the number of entry nodes is not one,
\* and succeeds on a graph with a single entry node from which all nodes are
\* connected and whose condition and loop nodes have their required ports wired.
C10_ValidateEntryAndWiring ==
    pc # "idle" =>
        /\ Cardinality(entry_nodes(Graph)) # 1 => ValidateFailed
        /\ (Cardinality(entry_nodes(Graph)) = 1 /\ AllConnected /\ RequiredPortsWired)
              => ~ValidateFailed

\* C10 amended: as C10, the graphs validate() succeeds on being those in which,
\* in addition, every branch node has a wired condition input or a non-empty
\* expression.
C10_ValidateEntryWiringAndBranches ==
    pc # "idle" =>
        /\ Cardinality(entry_nodes(Graph)) # 1 => ValidateFailed
        /\ (Cardinality(entry_nodes(Graph)) = 1 /\ AllConnected /\ RequiredPortsWired
            /\ BranchesDecidable) => ~ValidateFailed

\* C10 witness: validate() succeeded on a graph of at least three nodes that
\* holds a loop node with its required ports wired
C10_ValidatedLoopGraph ==
    /\ pc = "loop" /\ trace = << >>
    /\ \E n \in DOMAIN nodes : IsLoopNode(nodes[n])
    /\ Cardinality(DOMAIN nodes) >= 3


-----------------------------------------------------------------------------
(* Properties of validate and topological_order *)

\* nodes that a path of at most k edges into control inputs (input port 0)
\* leads to from a node of the set from
RECURSIVE ControlReach(_, _)
ControlReach(from, k) ==
    IF k = 0 THEN from
    ELSE LET prev == ControlReach(from, k - 1)
         IN  prev \cup {t \in DOMAIN nodes :
                 \E n \in prev \cap DOMAIN edges : \E i \in 1..Len(edges[n]) :
                     edges[n][i].target = t /\ edges[n][i].target_port = 0}

\* nodes connected to the entry nodes by control-port edges
FromEntry == ControlReach(entry_nodes(Graph), Cardinality(DOMAIN nodes))

\* a run was started on the graph and has not returned yet
RunCalled == op.name = "run" /\ pc # "idle"

\* C11: whenever validate() succeeds (as a call on the graph, and as the first
\* step of a run) there is a single entry node and every node of the graph is
\* connected to it by control-port edges; whenever some node is not, validate()
\* fails and the run ends with that ExecutionError before anything is executed.
C11_ValidatedGraphIsConnected ==
    /\ validate(Graph) = {} =>
          /\ Cardinality(entry_nodes(Graph)) = 1
          /\ DOMAIN nodes \subseteq FromEntry
    /\ ~(DOMAIN nodes \subseteq FromEntry) => validate(Graph) # {}
    /\ RunCalled =>
          IF DOMAIN nodes \subseteq FromEntry /\ err.phase # "validate"
          THEN TRUE
          ELSE /\ pc = "failed" /\ err.phase = "validate"
               /\ err.kind = "ExecutionError" /\ trace = << >>

\* C11 witness: a run was refused because a node with an incoming control edge
\* cannot be reached from the single entry node
C11_UnreachableRejected ==
    /\ pc = "failed"
    /\ err.msg = "ExecutionError: unreachable nodes"
    /\ Cardinality(entry_nodes(Graph)) = 1
    /\ ~(DOMAIN nodes \subseteq FromEntry)


\* the edges that leave output port p of node n
EdgesOnPort(n, p) == SelectSeq(edges[n], LAMBDA e : e.source_port = p)

\* the While and For nodes of the graph
LoopNodes == {n \in DOMAIN nodes : nodes[n].type \in {"while_loop", "for_loop"}}

\* validate() has accepted the graph: called now it returns normally, or the
\* run in progress got past it
Validated == validate(Graph) = {} \/ (RunCalled /\ err.phase # "validate")

ConditionNodes == {n \in DOMAIN nodes : nodes[n].type = "condition_equals"}

\* C13: when validate() succeeds, every condition node has exactly one edge on
\* each of its two outputs: the one on the next output (port 0) ends on a
\* control input (port 0), the one on the result output (port 1) ends on the
\* condition input (port 1) of a branch node.
C13_ValidatedConditionsWired ==
    Validated =>
        \A n \in ConditionNodes :
            /\ Len(EdgesOnPort(n, 0)) = 1 /\ EdgesOnPort(n, 0)[1].target_port = 0
            /\ Len(EdgesOnPort(n, 1)) = 1 /\ EdgesOnPort(n, 1)[1].target_port = 1
            /\ EdgesOnPort(n, 1)[1].target \in DOMAIN nodes
            /\ nodes[EdgesOnPort(n, 1)[1].target].type = "if_condition"

\* C13 witness: a run of a graph with a condition node got past validate()
\* and executed the condition node
C13_ConditionNodeExecuted ==
    /\ RunCalled /\ pc \in {"loop", "done"}
    /\ \E n \in ConditionNodes : Executions(n) > 0 /\ Len(EdgesOnPort(n, 1)) = 1


\* the pairs (source, target) of the edges into control inputs; with
\* without_tails the loop-tail edges (output port 2 of a loop node) are left out
ControlPairs(without_tails) ==
    {p \in (DOMAIN nodes) \X (DOMAIN nodes) :
        \E i \in 1..Len(edges[p[1]]) :
            /\ edges[p[1]][i].target = p[2]
            /\ edges[p[1]][i].target_port = 0
            /\ ~(without_tails /\ p[1] \in LoopNodes /\ edges[p[1]][i].source_port = 2)}

\* nodes that a path of 1..k edges of E leads to from node n
RECURSIVE After(_, _, _)
After(E, n, k) ==
    IF k = 0 THEN {}
    ELSE LET prev == After(E, n, k - 1)
         IN  prev \cup {p[2] : p \in {q \in E : q[1] = n \/ q[1] \in prev}}

\* the edges of E form a DAG: no node lies on a cycle
IsDag(E) == \A n \in DOMAIN nodes : n \notin After(E, n, Cardinality(DOMAIN nodes))

\* C14: topological_order() returns normally exactly when the control-port
\* edges of the graph, loop-tail edges left out, form a DAG.
C14_TopologicalOrderIffDag ==
    op.name = "topological_order" =>
        (op.err = "none" <=> IsDag(ControlPairs(TRUE)))

\* C15: a run of a graph with a cycle of control-port edges that is not made
\* of loop-tail edges is refused by validate() with the cycle failure of
\* topological_order().
C15_ValidateReportsCycle ==
    (RunCalled /\ ~IsDag(ControlPairs(TRUE))) =>
        /\ pc = "failed" /\ err.phase = "validate"
        /\ err.msg = topological_order(Graph).exc


-----------------------------------------------------------------------------
(* Properties of the node variants *)

\* the node visited last
LastVisited == IF trace = << >> THEN None ELSE trace[Len(trace)]

\* the condition input (input port 1) of branch node n has an incoming edge
ConditionWired(n) ==
    \E i \in 1..Len(reverse_edges[n]) : reverse_edges[n][i].target_port = 1

\* C16: a visit of the branch node I (outputs wired to A and B) whose
\* condition input is wired to the equals-condition node Q, executed before,
\* succeeds whatever I's own expression is and follows Q's result: to A when
\* Q's operands are 5 and 5, to B when they are 5 and 6.  With the condition
\* input not wired the branch follows its own expression: True to A, False to
\* B.  In both cases the target returned is that of output 0 when the boolean
\* recorded for the branch is true and that of output 1 when it is false.
C16_BranchFollowsCondition ==
    (pc = "visit" /\ LastVisited = "I") =>
        LET q == nodes["Q"].config
            expression == nodes["I"].config.expression
        IN  /\ (ConditionWired("I") /\ "Q" \in DOMAIN context.results) =>
                  /\ err = NoFailure
                  /\ context.results["I"].condition = context.results["Q"].condition
                  /\ current = IF q.left_expression = q.right_expression
                               THEN "A" ELSE "B"
            /\ (~ConditionWired("I") /\ expression = "True") =>
                  err = NoFailure /\ current = "A"
            /\ (~ConditionWired("I") /\ expression = "False") =>
                  err = NoFailure /\ current = "B"
            /\ err = NoFailure =>
                  current = IF context.results["I"].condition
                            THEN get_outgoing_target(Graph, "I", 0)
                            ELSE get_outgoing_target(Graph, "I", 1)

\* C16 witness: the branch node, its own expression True, was visited after a
\* wired equals-condition node comparing 5 with 6 and led to B
C16_WiredFalseBranchTaken ==
    /\ pc = "visit" /\ trace = <<"Q", "I">>
    /\ ConditionWired("I")
    /\ nodes["I"].config.expression = "True"
    /\ nodes["Q"].config.right_expression = "6"
    /\ current = "B"


\* the values a For loop runs through: cur, cur + k, ... as long as they are
\* below e (k > 0) or above e (k < 0)
RECURSIVE ForValues(_, _, _)
ForValues(cur, e, k) ==
    IF (k > 0 /\ cur < e) \/ (k < 0 /\ cur > e)
    THEN <<cur>> \o ForValues(cur + k, e, k)
    ELSE << >>

\* the values of the For node L of the graph
ValuesOfL ==
    ForValues(nodes["L"].config.start, nodes["L"].config.end, nodes["L"].config.step)

\* C17 as stated: whatever max_iterations is, the i-th visit of the For node L
\* records the i-th value with should_continue = true and returns the
\* loop-entry target, and the visit after the last value records completed =
\* true, should_continue = false and returns the finished target.
C17_ForValuesInOrder ==
    (pc = "visit" /\ LastVisited = "L") =>
        LET i == Len(trace)
            state == context.results["L"]
        IN  /\ i <= Len(ValuesOfL) =>
                  /\ err = NoFailure
                  /\ state.value = ValuesOfL[i]
                  /\ state.should_continue /\ ~state.completed
                  /\ current = "A"
            /\ i = Len(ValuesOfL) + 1 =>
                  /\ err = NoFailure
                  /\ state.completed /\ ~state.should_continue
                  /\ current = "F"

\* C17 amended: as long as the number of values does not exceed
\* max_iterations, the i-th visit of the For node L records the i-th value
\* with should_continue = true and returns the loop-entry target, and the
\* visit after the last value records completed = true, should_continue =
\* false and returns the finished target; with more values than
\* max_iterations the first max_iterations visits still record their values.
C17_ForValuesWithinBound ==
    (pc = "visit" /\ LastVisited = "L") =>
        LET i == Len(trace)
            state == context.results["L"]
            max_iterations == nodes["L"].config.max_iterations
        IN  /\ (i <= Len(ValuesOfL) /\ i <= max_iterations) =>
                  /\ err = NoFailure
                  /\ state.value = ValuesOfL[i]
                  /\ state.should_continue /\ ~state.completed
                  /\ current = "A"
            /\ (i = Len(ValuesOfL) + 1 /\ Len(ValuesOfL) <= max_iterations) =>
                  /\ err = NoFailure
                  /\ state.completed /\ ~state.should_continue
                  /\ current = "F"

\* C17 witness: the For node with start 0, end 3, step 1 made its terminal
\* visit after the values 0, 1, 2
C17_ForLoopFinished ==
    /\ pc = "visit" /\ trace = <<"L", "L", "L", "L">>
    /\ ValuesOfL = <<0, 1, 2>>
    /\ context.results["L"].completed
    /\ current = "F"


\* C18: a While node W whose guard is the expression True and whose
\* max_iterations is N records iteration = i on its i-th execution for i up
\* to N; execution N + 1 (and each later one) raises ExecutionError and leaves
\* the recorded state as execution N left it.
C18_WhileStopsAtBound ==
    (pc = "visit" /\ LastVisited = "W" /\ nodes["W"].config.expression = "True") =>
        LET i == Len(trace)
            N == nodes["W"].config.max_iterations
        IN  /\ i <= N =>
                  /\ err = NoFailure
                  /\ context.results["W"] = [condition |-> TRUE, iteration |-> i]
            /\ i > N =>
                  /\ err.kind = "ExecutionError" /\ err.phase = "execute"
                  /\ context.results["W"] = [condition |-> TRUE, iteration |-> N]

\* C18 witness: the sixth execution of a While node with guard True and
\* max_iterations 5 has failed
C18_SixthExecutionFailed ==
    /\ pc = "visit" /\ LastVisited = "W" /\ Len(trace) = 6
    /\ nodes["W"].config = [expression |-> "True", max_iterations |-> 5]
    /\ err.kind = "ExecutionError"
    /\ context.results["W"].iteration = 5


\* C19: the For node L never records an iteration count above max_iterations.
\* When no more values lie before the end than max_iterations allows, no visit
\* fails; otherwise the first max_iterations visits record their values and
\* each later visit, which would continue with iteration max_iterations + 1,
\* raises ExecutionError and leaves the state recorded by visit
\* max_iterations unchanged.
C19_ForFailsOnlyBeyondBound ==
    (pc = "visit" /\ LastVisited = "L") =>
        LET i == Len(trace)
            c == nodes["L"].config
            M == c.max_iterations
        IN  /\ context.results["L"].iteration <= M
            /\ Len(ValuesOfL) <= M => err = NoFailure
            /\ (Len(ValuesOfL) > M /\ i <= M) => err = NoFailure
            /\ (Len(ValuesOfL) > M /\ i > M) =>
                  /\ err.kind = "ExecutionError" /\ err.phase = "execute"
                  /\ context.results["L"] =
                        [value |-> ValuesOfL[M], iteration |-> M,
                         next_value |-> ValuesOfL[M] + c.step,
                         should_continue |-> TRUE, completed |-> FALSE]

\* C19 witness: a For node with more values than max_iterations has failed on
\* the visit after max_iterations values
C19_ForBoundHit ==
    /\ pc = "visit" /\ LastVisited = "L"
    /\ Len(trace) = nodes["L"].config.max_iterations + 1
    /\ nodes["L"].config.max_iterations > 1
    /\ err.kind = "ExecutionError"
    /\ context.results["L"].iteration = nodes["L"].config.max_iterations


-----------------------------------------------------------------------------
(* Properties of add_edge: condition results and condition inputs *)

\* output port p of node n is the result output of a condition node
IsResultOutput(n, p) ==
    n \in DOMAIN nodes /\ nodes[n].type = "condition_equals" /\ p = 1

\* input port p of node n is the condition input of a branch node
IsConditionInput(n, p) ==
    n \in DOMAIN nodes /\ nodes[n].type = "if_condition" /\ p = 1

\* C20: in every graph, in both indexes, an edge ends at the condition input
\* of a branch node exactly when it starts at the result output of a
\* condition node; and add_edge refuses, with an exception and without
\* changing the graph, every edge between existing nodes for which only one
\* of the two holds.
C20_ConditionResultPairing ==
    /\ \A n \in DOMAIN edges : \A i \in 1..Len(edges[n]) :
          IsConditionInput(edges[n][i].target, edges[n][i].target_port)
              <=> IsResultOutput(n, edges[n][i].source_port)
    /\ \A n \in DOMAIN reverse_edges : \A i \in 1..Len(reverse_edges[n]) :
          IsConditionInput(n, reverse_edges[n][i].target_port)
              <=> IsResultOutput(reverse_edges[n][i].source,
                                 reverse_edges[n][i].source_port)
    /\ \A r \in EdgeRequests :
          (/\ r[1] \in DOMAIN nodes /\ r[3] \in DOMAIN nodes
           /\ IsConditionInput(r[3], r[4]) # IsResultOutput(r[1], r[2])) =>
              /\ add_edge(Graph, r[1], r[3], r[2], r[4]).err # "none"
              /\ add_edge(Graph, r[1], r[3], r[2], r[4]).g = Graph

\* C20 witness: add_edge has refused to lead a condition node's result output
\* into a control input, in a graph that holds a properly paired edge
C20_UnpairedEdgeRefused ==
    /\ op.name = "add_edge"
    /\ op.err = "ValueError: condition result needs a condition input"
    /\ \E n \in DOMAIN edges : \E i \in 1..Len(edges[n]) :
          IsResultOutput(n, edges[n][i].source_port)


\* C21: no graph holds an edge from a node to itself, in either index, and
\* add_edge refuses every request whose source is its target, whatever the
\* ports (the tail port of a loop node and the control port included),
\* leaving the graph unchanged.
C21_NoSelfEdge ==
    /\ \A n \in DOMAIN edges : \A i \in 1..Len(edges[n]) : edges[n][i].target # n
    /\ \A n \in DOMAIN reverse_edges : \A i \in 1..Len(reverse_edges[n]) :
          reverse_edges[n][i].source # n
    /\ \A n \in NodeIds : \A sp \in 0..2 : \A tp \in 0..1 :
          LET result == add_edge(Graph, n, n, sp, tp)
          IN  result.err # "none" /\ result.g = Graph

\* C21 witness: add_edge has refused to connect a node of the graph to itself
C21_SelfEdgeRefused ==
    /\ op = [name |-> "add_edge", err |-> "ValueError: self connection"]
    /\ \E n \in DOMAIN nodes : nodes[n].type = "for_loop"


\* number of output ports of node n, by its class
NumOutputs(n) ==
    CASE nodes[n].type \in {"while_loop", "for_loop"} -> 3
      [] nodes[n].type \in {"if_condition", "condition_equals"} -> 2
      [] OTHER -> 1

\* number of input ports of node n, by its class
NumInputs(n) == IF nodes[n].type = "if_condition" THEN 2 ELSE 1

\* an edge already leaves output port p of node n
OutputTaken(n, p) == \E i \in 1..Len(edges[n]) : edges[n][i].source_port = p

\* an edge already ends at input port p of node n
InputTaken(n, p) ==
    \E i \in 1..Len(reverse_edges[n]) : reverse_edges[n][i].target_port = p

\* request r = (s, sp, t, tp) names two different nodes of the graph and
\* ports that are not negative, the input port being one the target has
WellFormed(r) ==
    /\ r[1] \in DOMAIN nodes /\ r[3] \in DOMAIN nodes /\ r[1] # r[3]
    /\ r[2] >= 0 /\ r[4] >= 0 /\ r[4] < NumInputs(r[3])

\* C22 as stated: between two different nodes of the graph, add_edge(s, t,
\* sp, tp) fails when sp is not an output port of s or input port tp of t is
\* taken, and otherwise the call succeeds and an identical second call fails.
C22_AddEdgeFailsOnlyOnPorts ==
    \A r \in EdgeRequests : WellFormed(r) =>
        LET first == add_edge(Graph, r[1], r[3], r[2], r[4])
        IN  IF r[2] >= NumOutputs(r[1]) \/ InputTaken(r[3], r[4])
            THEN first.err # "none"
            ELSE /\ first.err = "none"
                 /\ add_edge(first.g, r[1], r[3], r[2], r[4]).err # "none"

\* C22 amended: add_edge(s, t, sp, tp) succeeds exactly when s and t are two
\* different nodes of the graph, sp is an output port of s and tp an input
\* port of t, the edge pairs a condition result with a condition input or
\* involves neither, and neither output port sp of s nor input port tp of t
\* has an edge yet; a call that succeeds appends the edge to both indexes and
\* makes an identical second call fail, a call that fails changes nothing.
C22_AddEdgeSucceedsIff ==
    \A r \in EdgeRequests :
        LET first == add_edge(Graph, r[1], r[3], r[2], r[4])
            allowed ==
                /\ r[1] \in DOMAIN nodes /\ r[3] \in DOMAIN nodes /\ r[1] # r[3]
                /\ r[2] >= 0 /\ r[2] < NumOutputs(r[1])
                /\ r[4] >= 0 /\ r[4] < NumInputs(r[3])
                /\ IsConditionInput(r[3], r[4]) = IsResultOutput(r[1], r[2])
                /\ ~OutputTaken(r[1], r[2])
                /\ ~InputTaken(r[3], r[4])
        IN  /\ first.err = "none" <=> allowed
            /\ first.err # "none" => first.g = Graph
            /\ first.err = "none" =>
                  /\ first.g.nodes = nodes
                  /\ first.g.edges = [edges EXCEPT ![r[1]] = Append(@,
                        [target |-> r[3], source_port |-> r[2], target_port |-> r[4]])]
                  /\ first.g.reverse_edges = [reverse_edges EXCEPT ![r[3]] = Append(@,
                        [source |-> r[1], target_port |-> r[4], source_port |-> r[2]])]
                  /\ add_edge(first.g, r[1], r[3], r[2], r[4]).err # "none"

\* C22 witness: an identical second add_edge call has been refused
C22_RepeatedCallRefused ==
    /\ op = [name |-> "add_edge", err |-> "ValueError: connection exists"]
    /\ EdgeCount(Graph) >= 1


-----------------------------------------------------------------------------
(* Frame properties of remove_node and remove_edge *)

\* C23: remove_node(n) for a node n of the graph takes n out of the node set
\* and out of both indexes, leaves no edge with n as source or target in
\* either index, and leaves every other node and, in their order, every edge
\* that does not touch n as they were.
C23_RemoveNodeFrame ==
    [][ \A n \in NodeIds :
          (op'.name = "remove_node" /\ n \in DOMAIN nodes /\ RemoveNode(n)) =>
          /\ DOMAIN nodes' = DOMAIN nodes \ {n}
          /\ DOMAIN edges' = DOMAIN edges \ {n}
          /\ DOMAIN reverse_edges' = DOMAIN reverse_edges \ {n}
          /\ \A m \in DOMAIN nodes \ {n} :
                /\ nodes'[m] = nodes[m]
                /\ edges'[m] = SelectSeq(edges[m], LAMBDA e : e.target # n)
                /\ reverse_edges'[m] =
                      SelectSeq(reverse_edges[m], LAMBDA e : e.source # n)
                /\ \A i \in 1..Len(edges'[m]) : edges'[m][i].target # n
                /\ \A i \in 1..Len(reverse_edges'[m]) : reverse_edges'[m][i].source # n
      ]_vars

\* C23 witness: a node was removed and three nodes joined by two edges remain
C23_NodeRemovedEdgesKept ==
    /\ op.name = "remove_node"
    /\ EdgeCount(Graph) = 2
    /\ Cardinality(DOMAIN nodes) = 3


\* the ports (sp, tp) of an edge match the port arguments of remove_edge,
\* each << >> when left out and <<port>> otherwise
PortsMatch(sp, tp, source_port, target_port) ==
    /\ (source_port = << >> \/ sp = source_port[1])
    /\ (target_port = << >> \/ tp = target_port[1])

\* C24: on every graph, remove_edge(s, t, source_port, target_port) takes out of the forward
\* list of s and out of the reverse list of t exactly the s -> t edges whose
\* ports match the arguments given (all s -> t edges when none is given),
\* keeping the order of the rest, and changes no other list and no node.
C24_RemoveEdgeFrame ==
    \A r \in RemoveRequests :
        LET after == remove_edge(Graph, r[1], r[2], r[3], r[4])
        IN  /\ after.nodes = nodes
            /\ DOMAIN after.edges = DOMAIN edges
            /\ DOMAIN after.reverse_edges = DOMAIN reverse_edges
            /\ \A m \in DOMAIN edges :
                  after.edges[m] =
                    IF m = r[1]
                    THEN SelectSeq(edges[m], LAMBDA e :
                            ~(e.target = r[2]
                              /\ PortsMatch(e.source_port, e.target_port, r[3], r[4])))
                    ELSE edges[m]
            /\ \A m \in DOMAIN reverse_edges :
                  after.reverse_edges[m] =
                    IF m = r[2]
                    THEN SelectSeq(reverse_edges[m], LAMBDA e :
                            ~(e.source = r[1]
                              /\ PortsMatch(e.source_port, e.target_port, r[3], r[4])))
                    ELSE reverse_edges[m]

\* C24 witness: after a remove_edge the condition node Q still has its edge
\* from output 0 to the branch node I, but none from output 1
C24_OneOfTwoEdgesRemoved ==
    /\ op.name = "remove_edge"
    /\ "Q" \in DOMAIN edges /\ "I" \in DOMAIN reverse_edges
    /\ edges["Q"] = <<[target |-> "I", source_port |-> 0, target_port |-> 0]>>
    /\ reverse_edges["I"] = <<[source |-> "Q", target_port |-> 0, source_port |-> 0]>>

-----------------------------------------------------------------------------
(* Construction against execution *)

\* the failures execute() raises for a value of the node's own configuration
ConfigRejections == {"command not set", "target path not set"}

\* C26: a node whose construction succeeded never fails at execute() because
\* of one of its own configuration values: what execute() rejects,
\* validate_config has rejected at construction.
C26_ConstructedNeverRejected ==
    \A n \in DOMAIN nodes :
        (err.phase = "execute" /\ trace # << >> /\ LastVisited = n)
            => err.msg \notin ConfigRejections

-----------------------------------------------------------------------------
(* The context of a run *)

\* C27: each call of run() that gets past validation starts from an empty
\* context, also when the caller still holds the context of an earlier run of
\* the same executor on the same graph; and while a run is in progress its
\* context holds results (loop iteration state included) only of nodes this
\* run has executed.
C27_FreshContextPerRun ==
    /\ (pc = "loop" /\ executed_steps = 0) => context = EmptyContext
    /\ pc \in {"loop", "done", "failed"} =>
          DOMAIN context.results \subseteq Range(trace)
    /\ \A n \in DOMAIN context.results :
          (nodes[n].type \in {"for_loop", "while_loop"} /\ pc \in {"loop", "done"})
             => context.results[n].iteration <= Executions(n)

\* C27 witness: run() was called again while the context of the run before
\* held results, and the new run has not executed a node yet
C27_SecondRunStarted ==
    /\ op.name = "run again"
    /\ op.held # {}
    /\ pc = "loop"
    /\ executed_steps = 0

-----------------------------------------------------------------------------
(* Termination of a run *)

\* C28: every run of a validated graph terminates when node effects and
\* should_stop return: it ends successfully only when no target is left for
\* the current node, it never executes more than max_steps nodes, and it has
\* ended, with a failure at the latest, by iteration max_steps + 1 of the
\* loop of _run_from.
C28_RunTerminates ==
    /\ [](pc = "done" => current = None)
    /\ [](pc = "loop" => current # None /\ executed_steps <= max_steps)
    /\ [](pc \in {"done", "failed"} =>
            executed_steps <= max_steps + 1 /\ Len(trace) <= max_steps)
    /\ (pc = "loop") ~> (pc \in {"done", "failed"})

\* C28 witness: a run over several nodes has ended successfully, within its
\* step limit, at a node without a target
C28_RunEndedWithoutTarget ==
    /\ op.name = "run"
    /\ pc = "done"
    /\ current = None
    /\ Len(trace) >= 2
    /\ executed_steps = max_steps

-----------------------------------------------------------------------------
(* The loop-tail override *)

\* the loop nodes whose port-2 edge enters input port 0 of node t
TailOwners(t) ==
    {n \in DOMAIN nodes :
        /\ nodes[n].type \in {"for_loop", "while_loop"}
        /\ \E i \in 1..Len(edges[n]) :
              /\ edges[n][i].source_port = 2
              /\ edges[n][i].target_port = 0
              /\ edges[n][i].target = t}

\* C30: the loop-tail map holds exactly the targets of the port-2 edges of
\* the loop nodes, each with its owning loop node, and whenever _run_from has
\* executed a node registered in it and goes on, the next node is the owning
\* loop node, whatever target the node's own determine_next returned.
C30_TailOverride ==
    [][ /\ pc = "loop" =>
              /\ DOMAIN loop_back_map = {t \in DOMAIN nodes : TailOwners(t) # {}}
              /\ \A t \in DOMAIN loop_back_map : loop_back_map[t] \in TailOwners(t)
        /\ (/\ pc = "loop"
            /\ Len(trace') = Len(trace) + 1
            /\ pc' # "failed"
            /\ TailOwners(current) # {})
               => /\ pc' = "loop"
                  /\ current' \in TailOwners(current)
      ]_vars

\* C30 witness: the tail target B, whose own output leads to G, was executed
\* and the walk went on at the owning loop node
C30_TailTargetReturnedToLoop ==
    /\ pc = "loop"
    /\ LastVisited = "B"
    /\ get_outgoing_target(Graph, "B", 0) = "G"
    /\ current \in TailOwners("B")

-----------------------------------------------------------------------------
(* The expression allow-list *)

\* the nodes of a syntax tree, parents before children
RECURSIVE TreeNodes(_)
TreeNodes(node) ==
    LET RECURSIVE Each(_)
        Each(list) == IF list = << >> THEN << >>
                      ELSE TreeNodes(Head(list)) \o Each(Tail(list))
    IN  <<node>> \o Each(children(node))

\* a node the allow-list forbids: a name or attribute starting with "__", a
\* call of anything but an allow-listed function name, a disallowed syntax
Forbidden(node) ==
    \/ node.type \notin ALLOWED_EXPR_NODES
    \/ node.type = "Name" /\ startswith_dunder(node.id)
    \/ node.type = "Attribute" /\ startswith_dunder(node.attr)
    \/ /\ node.type = "Call"
       /\ ~(/\ node.func.type = "Name"
            /\ node.func.id \in ALLOWED_CALLABLES \cup ADDITIONAL_ALLOWED_CALLS)

\* C29: an expression with a forbidden node anywhere in its tree is rejected
\* with ExecutionError before any of its nodes is evaluated, and
\* 2 + 3 * value('nodeA') evaluates to the number it denotes when the result
\* recorded for nodeA is numeric.
C29_CheckedBeforeEvaluated ==
    (op.name = "evaluate_expression" /\ strip(op.expression) # "") =>
        LET all == TreeNodes(parse(strip(op.expression)))
            forbidden == \E i \in 1..Len(all) : Forbidden(all[i])
        IN  /\ forbidden => op.err = "ExecutionError" /\ op.evaluated = << >>
            /\ (/\ op.expression = "2 + 3 * value('nodeA')"
                /\ "nodeA" \in DOMAIN context.results
                /\ context.results["nodeA"].t = "int")
                  => /\ op.err = "none"
                     /\ op.value = IntV(2 + 3 * context.results["nodeA"].v)

\* C29 witness: an expression whose left operand is allowed and whose right
\* operand calls __import__ was rejected
C29_ImportRejected ==
    /\ op.name = "evaluate_expression"
    /\ op.expression = "len(results) + __import__('os')"
    /\ op.err = "ExecutionError"

-----------------------------------------------------------------------------
(* The copy of a graph *)

\* the edges held by an index list, without their order
EdgeSet(list) == {list[i] : i \in 1..Len(list)}

\* C25: copy() returns a graph with the same node ids, the same edges in
\* both indexes and equal configuration values per node, and afterwards no
\* add_node, add_edge, remove_edge, remove_node or configuration change made
\* on one of the two graphs is visible in the other.
C25_CopyEqualAndIndependent ==
    [][ /\ (op'.name = "copy" /\ op.name # "copy") =>
              /\ op'.err = "none"
              /\ copied'.made
              /\ DOMAIN copied'.nodes = DOMAIN nodes
              /\ \A n \in DOMAIN nodes :
                    /\ copied'.nodes[n] = nodes[n]
                    /\ copied'.edges[n] = edges[n]
                    /\ EdgeSet(copied'.reverse_edges[n]) = EdgeSet(reverse_edges[n])
        /\ (copied.made /\ copied'.made) =>
              (Graph' = Graph \/ CopiedGraph' = CopiedGraph)
      ]_vars

-----------------------------------------------------------------------------
(* The While node *)

\* C31: a While node W with guard iteration < N and N <= max_iterations is
\* true on its first N executions, recording iteration 1..N and leading to
\* the loop entry target (output 1), and false on every later execution,
\* which leaves the count at N and leads to the finished target (output 0);
\* the tail output (2) is never the target.
C31_WhileGuardCountsTrueExecutions ==
    (/\ pc = "visit" /\ LastVisited = "W"
     /\ nodes["W"].config.expression \in IterationGuards
     /\ GuardBound(nodes["W"].config.expression) <= nodes["W"].config.max_iterations) =>
        LET i == Len(trace)
            N == GuardBound(nodes["W"].config.expression)
        IN  /\ err = NoFailure
            /\ current # get_outgoing_target(Graph, "W", 2)
            /\ i <= N =>
                  /\ context.results["W"] = [condition |-> TRUE, iteration |-> i]
                  /\ current = get_outgoing_target(Graph, "W", 1)
            /\ i > N =>
                  /\ context.results["W"] = [condition |-> FALSE, iteration |-> N]
                  /\ current = get_outgoing_target(Graph, "W", 0)

\* C31 witness: the fourth execution of a While node with guard iteration < 3
\* found the guard false and led to the finished target
C31_GuardFalseAfterThree ==
    /\ pc = "visit" /\ LastVisited = "W" /\ Len(trace) = 4
    /\ nodes["W"].config.expression = "iteration < 3"
    /\ context.results["W"] = [condition |-> FALSE, iteration |-> 3]
    /\ current = "F"

-----------------------------------------------------------------------------
(* Runs of graphs built through add_node, add_edge, remove_edge, remove_node *)

\* C32: in a run of a graph that passed validate() every node is executed at
\* most once, the number of executions is at most the number of nodes, and no
\* node registered in the loop-tail map is executed, so the loop-tail
\* override never replaces a target and no loop node is executed twice.
C32_EachNodeAtMostOnce ==
    (pc \in {"loop", "done", "failed"} /\ err.phase # "validate") =>
        /\ \A n \in DOMAIN nodes : Executions(n) <= 1
        /\ Len(trace) <= Cardinality(DOMAIN nodes)
        /\ \A i \in 1..Len(trace) :
              /\ trace[i] \in DOMAIN nodes
              /\ trace[i] \notin DOMAIN loop_back_map

\* C32 witness: a run of a graph with a registered loop tail has ended
\* successfully after executing the loop node and the node at its loop entry
C32_LoopGraphRunOnce ==
    /\ pc = "done"
    /\ loop_back_map # << >>
    /\ Len(trace) = 2
    /\ trace[1] = "L"
    /\ Executions("L") = 1

\* C33: in every graph that passes validate() the edges into control inputs
\* form a tree rooted at the single entry node (every other node has exactly
\* one incoming edge on input port 0, and no node lies on a cycle), and
\* topological_order() returns normally with every node in its order.
C33_ValidatedGraphIsTree ==
    (nodes # << >> /\ validate(Graph) = {}) =>
        /\ Cardinality(entry_nodes(Graph)) = 1
        /\ \A n \in DOMAIN nodes \ entry_nodes(Graph) : indegree(Graph, n) = 1
        /\ IsDag(ControlPairs(FALSE))
        /\ topological_order(Graph).exc = "none"
        /\ topological_order(Graph).order = DOMAIN nodes

\* C33 witness: topological_order() has just returned normally on a graph of
\* at least three nodes that passes validate().
C33_TreeOrdered ==
    /\ op.name = "topological_order"
    /\ op.err = "none"
    /\ validate(Graph) = {}
    /\ Cardinality(DOMAIN nodes) >= 3

\* nodes executed so far in the current run
Executed == {trace[i] : i \in 1..Len(trace)}

\* C34: when the node executed last is a branch node whose condition input is
\* wired to a node that was not executed in the current run, the run has
\* failed with ExecutionError raised in determine_next: no next node was
\* chosen and the branch node recorded no condition, neither from its own
\* expression nor a default.
C34_UnexecutedConditionFailsRun ==
    \A n \in DOMAIN nodes :
        (/\ pc \in {"loop", "done", "failed"}
         /\ LastVisited = n
         /\ nodes[n].type = "if_condition"
         /\ get_incoming_edge(Graph, n, 1) # << >>
         /\ get_incoming_edge(Graph, n, 1)[1].source \notin Executed) =>
            /\ pc = "failed"
            /\ err.kind = "ExecutionError"
            /\ err.phase = "determine_next"
            /\ current = None
            /\ context.results[n] = << >>

\* C34 witness: a graph that passes validate() was run, the For loop finished
\* at once, the branch node I was reached while the condition node Q wired
\* into it was never executed, and the run failed
C34_BranchReachedBeforeCondition ==
    /\ validate(Graph) = {}
    /\ trace = <<"L", "I">>
    /\ get_incoming_edge(Graph, "I", 1) # << >>
    /\ get_incoming_edge(Graph, "I", 1)[1].source = "Q"
    /\ pc = "failed"
    /\ err.kind = "ExecutionError"

\* the guard of the While node W held on the execution at position i of the
\* trace: a constant guard by its value, the guard iteration < N while fewer
\* than N executions came before (always when max_iterations < N), the guard
\* value('Q') once Q was executed
GuardHeld(i) ==
    LET e == nodes["W"].config.expression
        earlier == Cardinality({j \in Positions("W") : j < i})
    IN  CASE e = "True" -> TRUE
          [] e = "False" -> FALSE
          [] e \in IterationGuards ->
                earlier < GuardBound(e) \/ nodes["W"].config.max_iterations < GuardBound(e)
          [] e = ResultGuard -> \E j \in 1..(i - 1) : trace[j] = "Q"

\* number of executions of W so far on which its guard held
TrueGuardExecutions == Cardinality({i \in Positions("W") : GuardHeld(i)})

\* C35: the iteration a While node W has recorded in the context (0 before
\* its first record) is the number of its executions so far on which the
\* guard held, executions after one with a false guard included, up to
\* max_iterations; it never decreases as executions are added, and the
\* execution on which that number passes max_iterations raises and records
\* nothing.
C35_WhileIterationNeverReset ==
    (pc = "visit" /\ "W" \in DOMAIN nodes) =>
        LET max_iterations == nodes["W"].config.max_iterations
            recorded == IF "W" \in DOMAIN context.results
                        THEN context.results["W"].iteration ELSE 0
        IN  /\ recorded = IF TrueGuardExecutions < max_iterations
                          THEN TrueGuardExecutions ELSE max_iterations
            /\ LastVisited = "W" =>
                  /\ (err # NoFailure) <=>
                        (GuardHeld(Len(trace)) /\ TrueGuardExecutions > max_iterations)
                  /\ err = NoFailure =>
                        context.results["W"].condition = GuardHeld(Len(trace))

\* C35 witness: W found its guard false, Q was executed, and W then counted
\* two executions with a true guard
C35_CountGoesOnAfterFalse ==
    /\ pc = "visit"
    /\ trace = <<"W", "Q", "W", "W">>
    /\ context.results["W"] = [condition |-> TRUE, iteration |-> 2]

-----------------------------------------------------------------------------
(* The For node *)

\* number of values of range(start, end, step)
RangeLength(cfg) ==
    Cardinality({k \in 0..MaxVisits :
                    IF cfg.step > 0 THEN cfg.start + k * cfg.step < cfg.end
                    ELSE cfg.start + k * cfg.step > cfg.end})

\* C36: a For node L whose range has K <= max_iterations values, executed
\* again and again against one context, goes through passes of K + 1
\* executions that are all alike: the execution after one that recorded
\* completed = true records what a first visit records (value = start,
\* iteration 1, or the completed record with iteration 0 when the range is
\* empty), the pass yields start, start + step, ... and ends completed with
\* iteration K, and no execution fails.
C36_CompletedForRestarts ==
    (/\ pc = "visit" /\ "L" \in DOMAIN nodes /\ trace # << >>
     /\ RangeLength(nodes["L"].config) <= nodes["L"].config.max_iterations) =>
        LET cfg == nodes["L"].config
            K == RangeLength(cfg)
            r == (Len(trace) - 1) % (K + 1)
        IN  /\ err = NoFailure
            /\ r < K =>
                  /\ context.results["L"] =
                        [value |-> cfg.start + r * cfg.step, iteration |-> r + 1,
                         next_value |-> cfg.start + (r + 1) * cfg.step,
                         should_continue |-> TRUE, completed |-> FALSE]
                  /\ current = get_outgoing_target(Graph, "L", 1)
            /\ r = K =>
                  /\ context.results["L"] =
                        [value |-> cfg.start + K * cfg.step, iteration |-> K,
                         next_value |-> cfg.start + K * cfg.step,
                         should_continue |-> FALSE, completed |-> TRUE]
                  /\ current = get_outgoing_target(Graph, "L", 0)

\* C36 witness: the For node over range(0, 3, 1) completed on its fourth
\* execution and is in its second pass, at value 1
C36_SecondPassUnderWay ==
    /\ pc = "visit" /\ "L" \in DOMAIN nodes /\ Len(trace) = 6
    /\ nodes["L"].config = [start |-> 0, end |-> 3, step |-> 1, max_iterations |-> 3]
    /\ context.results["L"].value = 1
    /\ context.results["L"].iteration = 2
    /\ ~context.results["L"].completed

\* C37: every record a For node L holds in the context satisfies
\* completed = not should_continue, next_value = start + iteration * step,
\* value = start + (iteration - 1) * step while should_continue is true and
\* value = next_value once it is false, and 0 <= iteration <= max_iterations.
C37_ForRecordWellFormed ==
    (pc = "visit" /\ "L" \in DOMAIN nodes /\ "L" \in DOMAIN context.results) =>
        LET cfg == nodes["L"].config
            state == context.results["L"]
        IN  /\ state.completed = ~state.should_continue
            /\ state.next_value = cfg.start + state.iteration * cfg.step
            /\ state.should_continue =>
                  state.value = cfg.start + (state.iteration - 1) * cfg.step
            /\ ~state.should_continue => state.value = state.next_value
            /\ 0 <= state.iteration
            /\ state.iteration <= cfg.max_iterations

\* C37 witness: a For node counting down by 2 has recorded its completed
\* state after two values
C37_CountDownCompleted ==
    /\ pc = "visit" /\ "L" \in DOMAIN nodes /\ "L" \in DOMAIN context.results
    /\ nodes["L"].config.step = -2
    /\ context.results["L"].completed
    /\ context.results["L"].iteration = 2

-----------------------------------------------------------------------------
(* The runner *)

\* the workers whose finished signal the UI thread has not handled yet
InProgress == {i \in DOMAIN runner.workers : runner.workers[i].pc # "handled"}

\* C38: at most one worker exists whose finished signal has not been handled;
\* the runner's running flag is set exactly while there is one, the stop
\* event exists exactly while the flag is set, and the window's _is_running
\* agrees with the flag.  A run() that finds the flag set therefore starts no
\* worker, and a worker is started only once the worker before it is handled.
C38_OneWorkerAtATime ==
    /\ Cardinality(InProgress) <= 1
    /\ runner.running <=> InProgress # {}
    /\ runner.running <=> runner.stop_event # 0
    /\ runner.is_running = runner.running
    /\ \A i \in InProgress : /\ i = Len(runner.workers)
                              /\ runner.stop_event = runner.workers[i].event
                              /\ DOMAIN runner.events = {runner.workers[i].event}

\* C38 witness: the first worker was handled, the second run is executing
\* its graph, and a further run() was ignored
C38_RunIgnoredDuringSecondRun ==
    /\ Len(runner.workers) = 2
    /\ runner.workers[1].pc = "handled"
    /\ runner.workers[2].pc = "loop"
    /\ op = [name |-> "runner.run", err |-> "ignored"]

\* a worker is in the loop of _run_from and the stop event of its run is
\* set: the executor will begin another step
StoppedInLoop ==
    \E i \in DOMAIN runner.workers :
        /\ runner.workers[i].pc = "loop"
        /\ runner.events[runner.workers[i].event]

\* the runner has emitted finished(False, cancelled) for the worker it made
\* last and is not running
CancelledAndIdle ==
    /\ runner.emitted = [worker |-> Len(runner.workers), success |-> FALSE,
                         message |-> "cancelled"]
    /\ ~runner.running

\* the steps allowed by C39: a worker whose stop event is set executes no
\* further node, a stop() without a run in progress changes nothing in the
\* runner, and every new worker gets an Event of its own that is not set
StopStep ==
    /\ \A i \in InProgress :
          /\ i = Len(runner.workers)
          /\ runner.events[runner.workers[i].event] =>
                \/ runner'.workers[i].pc = "handled"
                \/ runner'.workers[i].trace = runner.workers[i].trace
    /\ (~runner.running /\ runner' # runner) => runner'.events # runner.events
                                                 \/ runner'.workers # runner.workers
                                                 \/ runner'.queue # runner.queue
    /\ Len(runner'.workers) > Len(runner.workers) =>
          LET new == runner'.workers[Len(runner'.workers)]
          IN  /\ new.event \notin DOMAIN runner.events
              /\ ~runner'.events[new.event]
              /\ runner'.stop_event = new.event

\* C39: once stop() has set the event of a run in progress, the worker of
\* that run, which is the worker made last, executes no further node; if
\* its executor is to begin another step, the runner eventually emits
\* finished(False, cancelled) for it and is not running.  stop() without a run in progress leaves the runner as it
\* is, and a later run starts with an Event that is not set.
C39_StopCancelsRun ==
    /\ [][StopStep]_vars
    /\ StoppedInLoop ~> CancelledAndIdle

\* C39 witness: the run of the chain A -> B was stopped after A was executed;
\* the worker has emitted finished(False, cancelled) and B was not executed
C39_CancelledAfterFirstNode ==
    /\ Len(runner.workers) = 1
    /\ runner.workers[1].pc = "finished"
    /\ runner.workers[1].trace = <<"A">>
    /\ runner.workers[1].graph_copy = ChainGraph
    /\ runner.queue = <<[worker |-> 1, success |-> FALSE, message |-> "cancelled"]>>

\* the two edge indexes of graph g hold the same edges
IndexesAgree(g) ==
    /\ DOMAIN g.edges = DOMAIN g.nodes
    /\ DOMAIN g.reverse_edges = DOMAIN g.nodes
    /\ \A n \in DOMAIN g.edges : \A k \in 1..Len(g.edges[n]) :
          LET e == g.edges[n][k]
          IN  /\ e.target \in DOMAIN g.reverse_edges
              /\ IncomingEdge(n, e.target_port, e.source_port)
                     \in EdgeSet(g.reverse_edges[e.target])
    /\ \A t \in DOMAIN g.reverse_edges : \A k \in 1..Len(g.reverse_edges[t]) :
          LET e == g.reverse_edges[t][k]
          IN  /\ e.source \in DOMAIN g.edges
              /\ OutgoingEdge(t, e.source_port, e.target_port)
                     \in EdgeSet(g.edges[e.source])

\* the copy a worker has taken is a graph the editor held at one instant
\* between the start and the end of copy(), with both edge indexes agreeing
SnapshotTaken ==
    \A i \in DOMAIN runner.workers :
        runner.workers[i].pc = "copied" =>
            /\ runner.workers[i].graph_copy \in runner.workers[i].seen
            /\ IndexesAgree(runner.workers[i].graph_copy)

\* no step changes the copy a worker has taken, whatever the editor does
SnapshotKept ==
    \A i \in DOMAIN runner.workers :
        (runner.workers[i].copied_ok /\ runner'.workers[i].copied_ok) =>
            runner'.workers[i].graph_copy = runner.workers[i].graph_copy

\* C40: the graph a worker runs is the editor's graph as it was at one
\* instant during the worker's copy(), with both edge indexes agreeing, also
\* when the UI thread adds or removes nodes and edges meanwhile, and no edit
\* made after the copy changes it.
C40_RunExecutesSnapshot ==
    /\ []SnapshotTaken
    /\ [][SnapshotKept]_vars

=============================================================================
